---- MODULE Spec2Model ----
(***************************************************************************)
(* Verification model of lab-update-esxi-cert: the certificate inspector   *)
(* (checkCertificateWithDialer), the local certificate cache               *)
(* (getCachedCertificate) and the top-level pipeline (runWorkflow).        *)
(*                                                                         *)
(* Time is an integer number of clock ticks.  Go's float64 quotients are   *)
(* modelled as extended rationals (finite n/d, +Inf, -Inf, NaN) with the   *)
(* IEEE-754 comparison rules; rounding of the quotient is not modelled.    *)
(***************************************************************************)
EXTENDS Integers, Sequences, FiniteSets, TLC

VARIABLES
    now,        \* time.Now(): the wall clock, in ticks
    insp,       \* the last call of checkCertificateWithDialer: inputs and results
    cacheDir,   \* whether <tmp>/esxi-cert-cache exists
    certFile,   \* per hostname: the file <hostname>-cert.pem of the cache directory
    keyFile,    \* per hostname: the file <hostname>-key.pem of the cache directory
    lastGet,    \* the last call of getCachedCertificate: inputs and results
    config,     \* runWorkflow: the Config of this invocation
    pc,         \* runWorkflow: the dependency it calls next, or "done"
    calls,      \* runWorkflow: the dependencies invoked so far, in order
    chk,        \* runWorkflow: what deps.CertChecker returned
    out,        \* runWorkflow: what the other dependencies returned
    ret,        \* runWorkflow: its return value ("nil" or the error), once done
    gen,        \* the last call of generateCertificate: inputs and results
    inst,       \* performSSHCertificateInstallation: position, remote steps, result
    up,         \* uploadCertificate and the validation after it: position, calls, results
    val,        \* validateCertificateWithDialer: position, deadline, polls, result
    cm,         \* parseArgs: the ConfigManager's values, the Config built, its validation
    runs,       \* two concurrent invocations of generateCertificate on one cache directory
    logs,       \* two runs of main that differ in their secrets only: the lines each logs
    upd         \* CheckForUpdates: the caller, the worker goroutine, the channel, the timer

vars == <<now, insp, cacheDir, certFile, keyFile, lastGet, config, pc, calls, chk, out, ret, gen, inst,
          up, val, cm, runs, logs, upd>>

cacheVars == <<cacheDir, certFile, keyFile, lastGet>>

runVars == <<config, pc, calls, chk, out, ret>>

moreVars == <<up, val, cm, runs, logs, upd>>

(***************************************************************************)
(* Bounds                                                                  *)
(***************************************************************************)
MaxTime == 3        \* clock readings and certificate dates range over 0..MaxTime

(***************************************************************************)
(* float64 quotients and comparisons                                       *)
(***************************************************************************)
Fin(n, d) == [k |-> "fin", n |-> n, d |-> d]
PosInf == [k |-> "+inf", n |-> 0, d |-> 1]
NegInf == [k |-> "-inf", n |-> 0, d |-> 1]
NaN == [k |-> "nan", n |-> 0, d |-> 1]

\* float64(a) / float64(b): division by zero yields an infinity or NaN, never a panic
FDiv(a, b) ==
    IF b = 0
    THEN IF a > 0 THEN PosInf ELSE IF a < 0 THEN NegInf ELSE NaN
    ELSE IF b > 0 THEN Fin(a, b) ELSE Fin(0 - a, 0 - b)

\* x <= y on float64: false as soon as one side is NaN
FLe(x, y) ==
    IF x.k = "nan" \/ y.k = "nan" THEN FALSE
    ELSE IF x.k = "-inf" \/ y.k = "+inf" THEN TRUE
    ELSE IF x.k = "+inf" \/ y.k = "-inf" THEN FALSE
    ELSE x.n * y.d <= y.n * x.d

\* x > y on float64: false as soon as one side is NaN
FGt(x, y) ==
    IF x.k = "nan" \/ y.k = "nan" THEN FALSE
    ELSE ~FLe(x, y)

(***************************************************************************)
(* Certificates, as far as the program reads them                          *)
(***************************************************************************)
SHA256WithRSA == "SHA256WithRSA"
ECDSAWithSHA256 == "ECDSAWithSHA256"
SignatureAlgorithms == {SHA256WithRSA, ECDSAWithSHA256}

Times == 0..MaxTime

Certificates == [NotBefore : Times, NotAfter : Times, SignatureAlgorithm : SignatureAlgorithms]

NoCert == [NotBefore |-> 0 - 1, NotAfter |-> 0 - 1, SignatureAlgorithm |-> "nil"]

\* the configured renewal thresholds the model draws from (float64 values)
Thresholds == {Fin(0, 1), Fin(33, 100), Fin(1, 2), Fin(7, 10), Fin(1, 1)}

\* ConfigManager.ValidateConfig: the threshold rule
ThresholdValid(th) == ~(FLe(th, Fin(0, 1)) \/ FLe(Fin(1, 1), th))

(***************************************************************************)
(* TLSDialer.Dial outcomes: a failed dial, or a connection with a peer     *)
(* chain (possibly empty) whose first element is the leaf                  *)
(***************************************************************************)
IssuerCert == [NotBefore |-> 0, NotAfter |-> MaxTime, SignatureAlgorithm |-> SHA256WithRSA]

PeerChains == {<<>>} \cup {<<c>> : c \in Certificates} \cup {<<c, IssuerCert>> : c \in Certificates}

DialOutcomes == {[err |-> TRUE, certs |-> <<>>]} \cup {[err |-> FALSE, certs |-> ch] : ch \in PeerChains}

\* the answers of a host whose certificate is an RSA certificate valid from clock 0
HostDialOutcomes ==
    {d \in DialOutcomes :
        \/ d.err
        \/ Len(d.certs) = 0
        \/ /\ Len(d.certs) = 1
           /\ d.certs[1].NotBefore = 0
           /\ d.certs[1].SignatureAlgorithm = SHA256WithRSA}

\* percentRemaining := float64(remainingLifetime) / float64(totalLifetime)
PercentRemaining(cert, t) == FDiv(cert.NotAfter - t, cert.NotAfter - cert.NotBefore)

\* checkCertificateWithDialer with the comparison percentRemaining < threshold
checkCertificateWithDialer_Strict(dial, threshold, t) ==
    IF dial.err
    THEN [needsRenewal |-> FALSE, cert |-> NoCert, err |-> "connect"]
    ELSE IF Len(dial.certs) = 0
    THEN [needsRenewal |-> FALSE, cert |-> NoCert, err |-> "nocerts"]
    ELSE LET cert == dial.certs[1]
             percentRemaining == PercentRemaining(cert, t)
         IN [needsRenewal |-> FLe(percentRemaining, threshold) /\ ~FLe(threshold, percentRemaining),
             cert |-> cert, err |-> "nil"]

\* checkCertificateWithDialer(hostname, threshold, dialer) at clock reading t
checkCertificateWithDialer(dial, threshold, t) ==
    IF dial.err
    THEN [needsRenewal |-> FALSE, cert |-> NoCert, err |-> "connect"]
    ELSE IF Len(dial.certs) = 0
    THEN [needsRenewal |-> FALSE, cert |-> NoCert, err |-> "nocerts"]
    ELSE LET cert == dial.certs[1]
             percentRemaining == PercentRemaining(cert, t)
         IN [needsRenewal |-> FLe(percentRemaining, threshold), cert |-> cert, err |-> "nil"]

\* what a second Dial of the same call would answer: a connection with a chain
Redial == [err |-> FALSE, certs |-> <<IssuerCert>>]

\* the kind of answer of a Dial
DialKind(dial) == IF dial.err THEN "fail" ELSE IF Len(dial.certs) = 0 THEN "empty" ELSE "chain"

\* checkCertificateWithDialer dialing again after a failed dial or an empty chain
checkCertificateDialing_Retry(dialer, threshold, t) ==
    IF DialKind(dialer[1]) = "chain"
    THEN [res |-> checkCertificateWithDialer(dialer[1], threshold, t), dials |-> 1]
    ELSE [res |-> checkCertificateWithDialer(dialer[2], threshold, t), dials |-> 2]

\* checkCertificateWithDialer on a dialer whose successive Dial calls answer
\* dialer[1], dialer[2]: the result, and the number of Dial calls made
checkCertificateDialing(dialer, threshold, t) ==
    [res |-> checkCertificateWithDialer(dialer[1], threshold, t), dials |-> 1]

(***************************************************************************)
(* The certificate cache: <tmp>/esxi-cert-cache/<hostname>-cert.pem and    *)
(* <hostname>-key.pem                                                      *)
(***************************************************************************)
Hosts == {"esxi1", "esxi2"}

\* A file of the cache directory: absent, present but unreadable, or present with
\* content: bytes that are no PEM block ("junk"), a PEM block that is no certificate
\* ("notcert": a private key, truncated DER), or a PEM certificate ("cert")
MissingFile == [st |-> "missing", kind |-> "none", cert |-> NoCert]
UnreadableFile == [st |-> "unreadable", kind |-> "none", cert |-> NoCert]
JunkFile == [st |-> "ok", kind |-> "junk", cert |-> NoCert]
PemFile == [st |-> "ok", kind |-> "notcert", cert |-> NoCert]
CertPem(c) == [st |-> "ok", kind |-> "cert", cert |-> c]

CertFileStates == {MissingFile, UnreadableFile, JunkFile, PemFile} \cup {CertPem(c) : c \in Certificates}
KeyFileStates == {MissingFile, UnreadableFile, JunkFile, PemFile}

NoPath == <<>>
\* the certificate path without the hostname in the file name
CertPath_NoHostname(h) == <<"esxi-cert-cache", "", "-cert.pem">>

CertPath(h) == <<"esxi-cert-cache", h, "-cert.pem">>
KeyPath(h) == <<"esxi-cert-cache", h, "-key.pem">>

CacheMiss == [certPath |-> NoPath, keyPath |-> NoPath, found |-> FALSE]

\* the freshness bar of the cache: percentRemaining > 0.5
CacheFreshness == Fin(1, 2)

\* getCachedCertificate accepting a certificate at exactly the freshness bar
getCachedCertificate_AtBar(cfg, cf, kf, t) ==
    IF cfg.Force THEN CacheMiss
    ELSE IF cf.st = "missing" THEN CacheMiss
    ELSE IF kf.st = "missing" THEN CacheMiss
    ELSE IF cf.st = "unreadable" THEN CacheMiss
    ELSE IF cf.kind = "junk" THEN CacheMiss
    ELSE IF cf.kind # "cert" THEN CacheMiss
    ELSE LET cert == cf.cert
             percentRemaining == PercentRemaining(cert, t)
         IN IF cert.SignatureAlgorithm # SHA256WithRSA THEN CacheMiss
            ELSE IF FLe(CacheFreshness, percentRemaining)
            THEN [certPath |-> CertPath(cfg.Hostname),
                  keyPath |-> KeyPath(cfg.Hostname), found |-> TRUE]
            ELSE CacheMiss

\* getCachedCertificate accepting a certificate of any signature algorithm
getCachedCertificate_AnyAlgorithm(cfg, cf, kf, t) ==
    IF cfg.Force THEN CacheMiss
    ELSE IF cf.st = "missing" THEN CacheMiss
    ELSE IF kf.st = "missing" THEN CacheMiss
    ELSE IF cf.st = "unreadable" THEN CacheMiss
    ELSE IF cf.kind = "junk" THEN CacheMiss
    ELSE IF cf.kind # "cert" THEN CacheMiss
    ELSE LET cert == cf.cert
             percentRemaining == PercentRemaining(cert, t)
         IN IF FGt(percentRemaining, CacheFreshness)
            THEN [certPath |-> CertPath(cfg.Hostname),
                  keyPath |-> KeyPath(cfg.Hostname), found |-> TRUE]
            ELSE CacheMiss

\* getCachedCertificate(cfg): the returned (certPath, keyPath, found), read from
\* the two cache files cf and kf of cfg.Hostname at clock reading t
getCachedCertificate(cfg, cf, kf, t) ==
    IF cfg.Force THEN CacheMiss
    ELSE IF cf.st = "missing" THEN CacheMiss              \* os.Stat(certPath): not exist
    ELSE IF kf.st = "missing" THEN CacheMiss              \* os.Stat(keyPath): not exist
    ELSE IF cf.st = "unreadable" THEN CacheMiss           \* os.ReadFile(certPath) fails
    ELSE IF cf.kind = "junk" THEN CacheMiss               \* pem.Decode returns nil
    ELSE IF cf.kind # "cert" THEN CacheMiss               \* x509.ParseCertificate fails
    ELSE LET cert == cf.cert
             percentRemaining == PercentRemaining(cert, t)
         IN IF cert.SignatureAlgorithm # SHA256WithRSA THEN CacheMiss
            ELSE IF FGt(percentRemaining, CacheFreshness)
            THEN [certPath |-> CertPath(cfg.Hostname),
                  keyPath |-> KeyPath(cfg.Hostname), found |-> TRUE]
            ELSE CacheMiss

(***************************************************************************)
(* generateCertificate(config)                                             *)
(***************************************************************************)
\* a key file holding the private key issued together with certificate c
KeyPem(c) == [st |-> "ok", kind |-> "key", cert |-> c]

\* what the ACME exchange returns at clock reading t: an error of one of its steps
\* (lego.NewClient, the Route53 provider, SetDNS01Provider, Register, Obtain), or a
\* certificate valid from t with its private key
IssuedCertificates(t) == {c \in Certificates : c.NotBefore = t /\ c.NotAfter > t}

AcmeErrors == {"failed to create ACME client", "failed to initialize Route53 provider",
               "failed to set DNS challenge provider", "failed to register account",
               "failed to obtain certificate"}

AcmeOutcomes(t) == {[err |-> e, cert |-> NoCert] : e \in AcmeErrors}
                       \cup {[err |-> "nil", cert |-> c] : c \in IssuedCertificates(t)}

\* what client.Certificate.Obtain can return at clock reading t when the server dates
\* the certificate as it likes: any certificate valid at t, or the error of Obtain
ObtainOutcomes(t) ==
    {[err |-> "failed to obtain certificate", cert |-> NoCert]}
        \cup {[err |-> "nil", cert |-> c] :
                 c \in {d \in Certificates : d.NotBefore <= t /\ d.NotAfter > t}}

\* os.WriteFile: written, failed with the file as it was, or failed with the file
\* truncated or partly written
WriteOutcomes == {"ok", "failed", "partial"}

\* the file f after os.WriteFile of content with outcome w
WriteFile(f, content, w) == IF w = "ok" THEN content ELSE IF w = "partial" THEN JunkFile ELSE f

\* generateCertificate requesting a certificate without consulting the cache
generateCertificate_AlwaysIssue(cfg, cf, kf, t, acme, wc, wk) ==
    IF acme.err # "nil"
    THEN [certPath |-> NoPath, keyPath |-> NoPath, err |-> acme.err, hit |-> FALSE,
          contacted |-> TRUE, issued |-> NoCert, certFile |-> cf, keyFile |-> kf]
    ELSE IF wc # "ok"
    THEN [certPath |-> NoPath, keyPath |-> NoPath, err |-> "failed to write cert file",
          hit |-> FALSE, contacted |-> TRUE, issued |-> acme.cert,
          certFile |-> WriteFile(cf, CertPem(acme.cert), wc), keyFile |-> kf]
    ELSE IF wk # "ok"
    THEN [certPath |-> NoPath, keyPath |-> NoPath, err |-> "failed to write key file",
          hit |-> FALSE, contacted |-> TRUE, issued |-> acme.cert,
          certFile |-> CertPem(acme.cert), keyFile |-> WriteFile(kf, KeyPem(acme.cert), wk)]
    ELSE [certPath |-> CertPath(cfg.Hostname), keyPath |-> KeyPath(cfg.Hostname),
          err |-> "nil", hit |-> FALSE, contacted |-> TRUE, issued |-> acme.cert,
          certFile |-> CertPem(acme.cert), keyFile |-> KeyPem(acme.cert)]

\* generateCertificate returning the cache paths without writing the issued key
generateCertificate_KeyNotWritten(cfg, cf, kf, t, acme, wc, wk) ==
    LET cached == getCachedCertificate(cfg, cf, kf, t) IN
    IF cached.found
    THEN [certPath |-> cached.certPath, keyPath |-> cached.keyPath, err |-> "nil",
          hit |-> TRUE, contacted |-> FALSE, issued |-> NoCert,
          certFile |-> cf, keyFile |-> kf]
    ELSE IF acme.err # "nil"
    THEN [certPath |-> NoPath, keyPath |-> NoPath, err |-> acme.err, hit |-> FALSE,
          contacted |-> TRUE, issued |-> NoCert, certFile |-> cf, keyFile |-> kf]
    ELSE IF wc # "ok"
    THEN [certPath |-> NoPath, keyPath |-> NoPath, err |-> "failed to write cert file",
          hit |-> FALSE, contacted |-> TRUE, issued |-> acme.cert,
          certFile |-> WriteFile(cf, CertPem(acme.cert), wc), keyFile |-> kf]
    ELSE [certPath |-> CertPath(cfg.Hostname), keyPath |-> KeyPath(cfg.Hostname),
          err |-> "nil", hit |-> FALSE, contacted |-> TRUE, issued |-> acme.cert,
          certFile |-> CertPem(acme.cert), keyFile |-> kf]

\* generateCertificate(cfg) at clock reading t, on the cache files cf and kf of
\* cfg.Hostname, with ACME outcome acme and write outcomes wc (certificate file) and
\* wk (key file): the returned (certPath, keyPath, err) and the two files afterwards
generateCertificate(cfg, cf, kf, t, acme, wc, wk) ==
    LET cached == getCachedCertificate(cfg, cf, kf, t) IN
    IF cached.found
    THEN [certPath |-> cached.certPath, keyPath |-> cached.keyPath, err |-> "nil",
          hit |-> TRUE, contacted |-> FALSE, issued |-> NoCert,
          certFile |-> cf, keyFile |-> kf]
    ELSE IF acme.err # "nil"
    THEN [certPath |-> NoPath, keyPath |-> NoPath, err |-> acme.err, hit |-> FALSE,
          contacted |-> TRUE, issued |-> NoCert, certFile |-> cf, keyFile |-> kf]
    ELSE IF wc # "ok"                                    \* os.WriteFile(certPath) fails
    THEN [certPath |-> NoPath, keyPath |-> NoPath, err |-> "failed to write cert file",
          hit |-> FALSE, contacted |-> TRUE, issued |-> acme.cert,
          certFile |-> WriteFile(cf, CertPem(acme.cert), wc), keyFile |-> kf]
    ELSE IF wk # "ok"                                    \* os.WriteFile(keyPath) fails
    THEN [certPath |-> NoPath, keyPath |-> NoPath, err |-> "failed to write key file",
          hit |-> FALSE, contacted |-> TRUE, issued |-> acme.cert,
          certFile |-> CertPem(acme.cert), keyFile |-> WriteFile(kf, KeyPem(acme.cert), wk)]
    ELSE [certPath |-> CertPath(cfg.Hostname), keyPath |-> KeyPath(cfg.Hostname),
          err |-> "nil", hit |-> FALSE, contacted |-> TRUE, issued |-> acme.cert,
          certFile |-> CertPem(acme.cert), keyFile |-> KeyPem(acme.cert)]

(***************************************************************************)
(* runWorkflow(config, deps)                                               *)
(***************************************************************************)
Configs == [Hostname : Hosts, DryRun : BOOLEAN, Force : BOOLEAN, Threshold : Thresholds]

DefaultConfig == [Hostname |-> "esxi1", DryRun |-> FALSE, Force |-> FALSE, Threshold |-> Fin(33, 100)]

NoCheck == [needsRenewal |-> FALSE, cert |-> NoCert, err |-> "none"]

NoOutcomes == [aws |-> "none", gen |-> "none", certPath |-> NoPath, keyPath |-> NoPath,
               up |-> "none", val |-> "none", validated |-> FALSE]

\* runWorkflow going on to the certificate check after a failed AWS validation
AfterAWSValidator_Continue(cfg, ok) == [pc |-> "check", ret |-> "running"]

\* after deps.AWSValidator returned: on an error the run returns it, otherwise the
\* certificate check is next (in dry-run mode and in normal mode)
AfterAWSValidator(cfg, ok) ==
    IF ~ok THEN [pc |-> "done", ret |-> "AWS credential validation failed"]
    ELSE [pc |-> "check", ret |-> "running"]

\* runWorkflow without its dry-run branch
AfterCertChecker_NoDryRun(cfg, res) ==
    IF res.err # "nil" THEN [pc |-> "done", ret |-> "certificate check failed"]
    ELSE IF cfg.Force THEN [pc |-> "generate", ret |-> "running"]
    ELSE IF ~res.needsRenewal THEN [pc |-> "done", ret |-> "nil"]
    ELSE [pc |-> "generate", ret |-> "running"]

\* runWorkflow with Force bypassing nothing: the threshold check decides alone
AfterCertChecker_IgnoreForce(cfg, res) ==
    IF cfg.DryRun
    THEN IF res.err # "nil" THEN [pc |-> "done", ret |-> "certificate check failed"]
         ELSE [pc |-> "done", ret |-> "nil"]
    ELSE IF res.err # "nil" THEN [pc |-> "done", ret |-> "certificate check failed"]
    ELSE IF ~res.needsRenewal THEN [pc |-> "done", ret |-> "nil"]
    ELSE [pc |-> "generate", ret |-> "running"]

\* runWorkflow without the early return for an up-to-date certificate
AfterCertChecker_AlwaysRenew(cfg, res) ==
    IF cfg.DryRun
    THEN IF res.err # "nil" THEN [pc |-> "done", ret |-> "certificate check failed"]
         ELSE [pc |-> "done", ret |-> "nil"]
    ELSE IF res.err # "nil" THEN [pc |-> "done", ret |-> "certificate check failed"]
    ELSE [pc |-> "generate", ret |-> "running"]

\* after deps.CertChecker returned res: the dry-run branch, then the renewal decision
AfterCertChecker(cfg, res) ==
    IF cfg.DryRun
    THEN IF res.err # "nil" THEN [pc |-> "done", ret |-> "certificate check failed"]
         ELSE [pc |-> "done", ret |-> "nil"]
    ELSE IF res.err # "nil" THEN [pc |-> "done", ret |-> "certificate check failed"]
    ELSE IF cfg.Force THEN [pc |-> "generate", ret |-> "running"]
    ELSE IF ~res.needsRenewal THEN [pc |-> "done", ret |-> "nil"]
    ELSE [pc |-> "generate", ret |-> "running"]

\* runWorkflow going on to the upload after a failed generation
AfterCertGenerator_Continue(cfg, ok) == [pc |-> "upload", ret |-> "running"]

\* after deps.CertGenerator returned
AfterCertGenerator(cfg, ok) ==
    IF ~ok THEN [pc |-> "done", ret |-> "failed to generate certificate"]
    ELSE [pc |-> "upload", ret |-> "running"]

\* after deps.CertUploader returned
AfterCertUploader(cfg, ok) ==
    IF ~ok THEN [pc |-> "done", ret |-> "failed to upload certificate"]
    ELSE [pc |-> "validate", ret |-> "running"]

\* runWorkflow returning the validator's error or timeout as its own
AfterCertValidator_Fatal(cfg, validated, ok) ==
    IF ~ok THEN [pc |-> "done", ret |-> "certificate validation error"]
    ELSE IF ~validated THEN [pc |-> "done", ret |-> "could not validate new certificate"]
    ELSE [pc |-> "done", ret |-> "nil"]

\* after deps.CertValidator returned: a warning at most, the run succeeds
AfterCertValidator(cfg, validated, ok) == [pc |-> "done", ret |-> "nil"]

(***************************************************************************)
(* performSSHCertificateInstallation(config, certData, keyData): the       *)
(* remote commands in the order the code issues them.  A command either    *)
(* succeeds ("ok"), fails on a session that was opened ("run"), or is never *)
(* run because client.NewSession failed ("sess").                          *)
(***************************************************************************)
BackupCommands == <<"cp -f rui.crt rui.crt.backup", "cp -f rui.key rui.key.backup", "ls -la rui.*">>
UploadCertificate == "cat > rui.crt"
UploadKey == "cat > rui.key"
PermissionCommands == <<"chmod 644 rui.crt", "chmod 600 rui.key", "chown root:root rui.crt rui.key">>
HostdRestart == "/etc/init.d/hostd restart"
VpxaRestart == "/etc/init.d/vpxa restart"
RestartCommands == <<HostdRestart, VpxaRestart>>

InstallOrder == BackupCommands \o <<UploadCertificate, UploadKey>> \o PermissionCommands \o RestartCommands

StepOutcomes == {"ok", "run", "sess"}

\* the installs of one host that are followed: performSSHCertificateInstallation is
\* called at most MaxInstalls times, the k-th time with the certificate and key of
\* issuance k; the host starts with the pair of issuance 0 and no backup
MaxInstalls == 2

NoRemoteFile == [st |-> "missing", pair |-> 0]
TruncatedFile == [st |-> "truncated", pair |-> 0]
PairFile(n) == [st |-> "ok", pair |-> n]

\* /etc/vmware/ssl/rui.crt, rui.key and their .backup siblings
InitRemote == [crt |-> PairFile(0), key |-> PairFile(0),
               crtBackup |-> NoRemoteFile, keyBackup |-> NoRemoteFile]

\* the remote files after the i-th backup command with outcome r: the command ran
\* unless NewSession failed, and cp copied the file (copied) or did not, which
\* "2>/dev/null || true" and the discarded error of CombinedOutput both hide
AfterBackupCommand(remote, i, r, copied) ==
    IF r = "sess" \/ ~copied THEN remote
    ELSE IF i = 1 /\ remote.crt.st # "missing" THEN [remote EXCEPT !.crtBackup = remote.crt]
    ELSE IF i = 2 /\ remote.key.st # "missing" THEN [remote EXCEPT !.keyBackup = remote.key]
    ELSE remote

\* the remote file f after copyFileViaSSH(client, data, path) with outcome r: "cat >
\* path" wrote data, or failed after the shell had truncated the file (truncated) or
\* before; a failed NewSession leaves the file alone
AfterCat(f, data, r, truncated) ==
    IF r = "ok" THEN data
    ELSE IF r = "run" /\ truncated THEN TruncatedFile
    ELSE f

\* a remote step whose session is closed only when the calling function returns
SessionEvents_ClosedAtReturn(r) ==
    IF r = "sess" THEN <<>> ELSE <<"NewSession">>

\* the session calls of one remote step with outcome r: client.NewSession(), and,
\* unless that failed, session.Close() after the command has run
SessionEvents(r) ==
    IF r = "sess" THEN <<>> ELSE <<"NewSession", "Close">>

InstallAt(p, i) == [pc |-> p, i |-> i, ret |-> "running"]
InstallReturns(r) == [pc |-> "done", i |-> 0, ret |-> r]

\* after ssh.Dial
AfterDial(ok) ==
    IF ~ok THEN InstallReturns("failed to connect via SSH")
    ELSE InstallAt("backup", 1)

\* the install leaving out the upload of the certificate
AfterBackup_SkipCertificate(i, r) ==
    IF r = "sess" THEN InstallAt("copykey", 0)
    ELSE IF i < Len(BackupCommands) THEN InstallAt("backup", i + 1)
    ELSE InstallAt("copykey", 0)

\* after the i-th backup command: a failed NewSession ends the backup step, whose
\* error is only logged; the result of the command itself is discarded
AfterBackup(i, r) ==
    IF r = "sess" THEN InstallAt("copycert", 0)
    ELSE IF i < Len(BackupCommands) THEN InstallAt("backup", i + 1)
    ELSE InstallAt("copycert", 0)

\* the install going on to the key upload after a failed certificate upload
AfterCopyCertificate_Continue(r) == InstallAt("copykey", 0)

\* after copyFileViaSSH(client, certData, "/etc/vmware/ssl/rui.crt")
AfterCopyCertificate(r) ==
    IF r # "ok" THEN InstallReturns("failed to copy certificate files")
    ELSE InstallAt("copykey", 0)

\* the install going on to the permissions after a failed key upload
AfterCopyKey_Continue(r) == InstallAt("perm", 1)

\* after copyFileViaSSH(client, keyData, "/etc/vmware/ssl/rui.key")
AfterCopyKey(r) ==
    IF r # "ok" THEN InstallReturns("failed to copy certificate files")
    ELSE InstallAt("perm", 1)

\* after the i-th permission command: a failed NewSession is returned as an error of
\* copyCertificateFiles, a failed command is logged as a warning
AfterPermission(i, r) ==
    IF r = "sess" THEN InstallReturns("failed to copy certificate files")
    ELSE IF i < Len(PermissionCommands) THEN InstallAt("perm", i + 1)
    ELSE InstallAt("restart", 1)

\* restartESXiServicesViaSSH downgrading the failure of every restart command
RestartSuccess_AllDowngraded(cmd, r, success) ==
    IF r = "sess" THEN FALSE ELSE success

\* the flag "success" of restartESXiServicesViaSSH after command cmd: a failed
\* NewSession clears it for either command, a failed command clears it unless the
\* command contains "vpxa"
RestartSuccess(cmd, r, success) ==
    IF r = "sess" THEN FALSE
    ELSE IF r = "run" THEN (IF cmd = VpxaRestart THEN success ELSE FALSE)
    ELSE success

\* restartESXiServicesViaSSH returning nil whatever the commands did
AfterRestart_AlwaysNil(i, success) ==
    IF i < Len(RestartCommands) THEN InstallAt("restart", i + 1)
    ELSE InstallReturns("nil")

\* after the i-th restart command, with the flag "success" as it is then
AfterRestart(i, success) ==
    IF i < Len(RestartCommands) THEN InstallAt("restart", i + 1)
    ELSE IF ~success THEN InstallReturns("failed to restart ESXi services")
    ELSE InstallReturns("nil")

(***************************************************************************)
(* uploadCertificate, installCertificateViaSSH and the TSM-SSH service     *)
(***************************************************************************)
\* what serviceSystem.Service(ctx) can answer about TSM-SSH
RegistryAnswers == {"err", "absent", "running", "stopped"}

\* ensureSSHServiceRunning starting the service whatever the registry says
ensureSSHServiceRunning_AlwaysStart(q, startOk) ==
    IF q = "err" THEN
        [wasRunning |-> FALSE, err |-> "failed to get services", calls |-> <<"Service">>]
    ELSE IF q = "absent" THEN
        [wasRunning |-> FALSE, err |-> "TSM-SSH service not found", calls |-> <<"Service">>]
    ELSE IF ~startOk THEN
        [wasRunning |-> FALSE, err |-> "failed to start TSM-SSH service",
         calls |-> <<"Service", "Start">>]
    ELSE
        [wasRunning |-> (q = "running"), err |-> "nil", calls |-> <<"Service", "Start">>]

\* ensureSSHServiceRunning: q is the answer of the service registry, startOk whether
\* serviceSystem.Start succeeds; calls are the calls made on the service system
ensureSSHServiceRunning(q, startOk) ==
    IF q = "err" THEN
        [wasRunning |-> FALSE, err |-> "failed to get services", calls |-> <<"Service">>]
    ELSE IF q = "absent" THEN
        [wasRunning |-> FALSE, err |-> "TSM-SSH service not found", calls |-> <<"Service">>]
    ELSE IF q = "running" THEN
        [wasRunning |-> TRUE, err |-> "nil", calls |-> <<"Service">>]
    ELSE IF ~startOk THEN
        [wasRunning |-> FALSE, err |-> "failed to start TSM-SSH service",
         calls |-> <<"Service", "Start">>]
    ELSE
        [wasRunning |-> FALSE, err |-> "nil", calls |-> <<"Service", "Start">>]

UploadAt(p) == [pc |-> p, ret |-> "running"]
UploadReturns(r) == [pc |-> "returned", ret |-> r]

\* uploadCertificate reading the two files it was given
AfterReadFiles(certOk, keyOk) ==
    IF ~certOk THEN UploadReturns("failed to read certificate file")
    ELSE IF ~keyOk THEN UploadReturns("failed to read key file")
    ELSE UploadAt("connect")

\* what reaching the service system of the host can come to
ConnectOutcomes == {"ok", "client", "host", "system"}

\* installCertificateViaSSH up to the service system
AfterConnect(c) ==
    IF c = "client" THEN UploadReturns("failed to connect to ESXi SOAP API for service management")
    ELSE IF c = "host" THEN UploadReturns("failed to find ESXi host system for service management")
    ELSE IF c = "system" THEN UploadReturns("failed to get service system")
    ELSE UploadAt("ensure")

\* installCertificateViaSSH after ensureSSHServiceRunning
AfterEnsureRunning(err) ==
    IF err # "nil" THEN UploadReturns("failed to manage SSH service")
    ELSE UploadAt("install")

\* installCertificateViaSSH stopping the service only if it had started it
AfterInstallation_RestorePriorState(wasRunning, sshErr) ==
    [stop |-> ~wasRunning, ret |-> sshErr]

\* installCertificateViaSSH after performSSHCertificateInstallation returned sshErr:
\* it stops TSM-SSH whatever ensureSSHServiceRunning reported, and returns sshErr
AfterInstallation(wasRunning, sshErr) ==
    [stop |-> TRUE, ret |-> sshErr]

(***************************************************************************)
(* validateCertificateWithDialer                                           *)
(***************************************************************************)
\* 3600 seconds, the clock and the certificate dates counting half hours
OneHour == 2

\* math.Abs(float64(a - b)) on Unix seconds
AbsDiff(a, b) == IF a >= b THEN a - b ELSE b - a

\* the validator taking a difference of exactly one hour for a new certificate
CertificateChanged_AtOneHour(newCert, oldNotAfter) ==
    /\ newCert.NotAfter # oldNotAfter
    /\ AbsDiff(newCert.NotAfter, oldNotAfter) >= OneHour

\* !newCert.NotAfter.Equal(oldCert.NotAfter) && timeDiff > 3600
CertificateChanged(newCert, oldNotAfter) ==
    /\ newCert.NotAfter # oldNotAfter
    /\ AbsDiff(newCert.NotAfter, oldNotAfter) > OneHour

PollSleeps == [pc |-> "loop", rotated |-> FALSE, err |-> "nil"]
PollReturns(rotated, err) == [pc |-> "done", rotated |-> rotated, err |-> err]

\* the validator returning the error of a failed dial
AfterPoll_DialFailureTerminal(dial, oldNotAfter) ==
    IF dial.err THEN PollReturns(FALSE, "connect")
    ELSE IF Len(dial.certs) = 0 THEN PollSleeps
    ELSE IF CertificateChanged(dial.certs[1], oldNotAfter) THEN PollReturns(TRUE, "nil")
    ELSE PollSleeps

\* one iteration of the polling loop: a failed dial and an empty chain are logged and
\* slept over, a changed leaf returns true, an unchanged one is slept over
AfterPoll(dial, oldNotAfter) ==
    IF dial.err THEN PollSleeps
    ELSE IF Len(dial.certs) = 0 THEN PollSleeps
    ELSE IF CertificateChanged(dial.certs[1], oldNotAfter) THEN PollReturns(TRUE, "nil")
    ELSE PollSleeps

\* the check intervals the model draws from
CheckIntervals == 1..2

\* the maximal durations the model draws from: none, negative, and up to the clock's end
MaxDurations == (0 - 1)..MaxTime

\* the loop condition with the deadline itself still inside the loop
Before_OrAt(t, deadline) == t <= deadline

\* time.Now().Before(deadline)
Before(t, deadline) == t < deadline

\* the clock after time.Sleep(d) at t; readings past the end of the clock, which are
\* past every deadline, are read as its end
AfterSleep(t, d) == IF t + d > MaxTime THEN MaxTime ELSE t + d


(***************************************************************************)
(* ConfigManager and parseArgs                                             *)
(***************************************************************************)
Keys == {"hostname", "domain", "email", "threshold", "log_level", "aws_key_id",
         "aws_secret_key", "dry_run", "force", "key_size", "esxi_username", "esxi_password"}

BoolKeys == {"dry_run", "force"}

\* the zero value of a key's type: what a flag that was not given, a field the
\* config file omits, and a key the ConfigManager never Set all read as
Zero(k) ==
    IF k \in BoolKeys THEN FALSE
    ELSE IF k = "threshold" THEN Fin(0, 1)
    ELSE IF k = "key_size" THEN 0
    ELSE ""

\* what a source says about key k: the value v it supplies, or nothing
Supplied(v) == [given |-> TRUE, v |-> v]
Absent(k) == [given |-> FALSE, v |-> Zero(k)]

\* NewConfigManager: nothing is Set
NoValues == [k \in Keys |-> Zero(k)]

\* cm.Set(key, value, source)
Set(values, k, v) == [values EXCEPT ![k] = v]

\* LoadDefaults
LoadDefaults(values) ==
    [values EXCEPT !["threshold"] = Fin(33, 100),
                   !["key_size"] = 4096,
                   !["log_level"] = "INFO",
                   !["dry_run"] = FALSE,
                   !["force"] = FALSE]

\* what a source hands over for key k: the value it supplies, or the zero value
Given(src, k) == IF src[k].given THEN src[k].v ELSE Zero(k)

\* LoadConfigFile on a file that exists and parses: strings and numbers are Set
\* unless zero, the booleans are Set always
LoadConfigFile(values, file) ==
    [k \in Keys |->
        IF k \in BoolKeys THEN Given(file, k)
        ELSE IF Given(file, k) # Zero(k) THEN Given(file, k)
        ELSE values[k]]

\* LoadEnvironmentVariables: a variable is read when os.Getenv is not empty; the
\* parsed value is Set, whatever it is
LoadEnvironmentVariables(values, env) ==
    [k \in Keys |-> IF env[k].given THEN env[k].v ELSE values[k]]

\* parseArgs, "Override with command-line flags": a flag is Set when its value is
\* not the zero value its definition defaults to
ApplyFlags(values, flags) ==
    [k \in Keys |-> IF Given(flags, k) # Zero(k) THEN Given(flags, k) ELSE values[k]]

\* BuildConfig
BuildConfig(values) ==
    [Hostname |-> values["hostname"], Domain |-> values["domain"], Email |-> values["email"],
     Threshold |-> values["threshold"], LogLevel |-> values["log_level"],
     Route53KeyID |-> values["aws_key_id"], Route53SecretKey |-> values["aws_secret_key"],
     DryRun |-> values["dry_run"], Force |-> values["force"], KeySize |-> values["key_size"],
     ESXiUsername |-> values["esxi_username"], ESXiPassword |-> values["esxi_password"]]

LogLevels == {"ERROR", "WARN", "INFO", "DEBUG"}

\* ValidateConfig accepting dry-run together with force
ValidateConfig_AllowDryRunWithForce(cfg) ==
    IF cfg.Hostname = "" THEN "hostname is required"
    ELSE IF cfg.Route53KeyID = "" \/ cfg.Route53SecretKey = ""
    THEN "AWS credentials for Route53 are required"
    ELSE IF ~cfg.DryRun /\ cfg.Domain = "" THEN "domain is required for Route53 DNS validation"
    ELSE IF ~cfg.DryRun /\ cfg.Email = "" THEN "email is required for ACME registration"
    ELSE IF ~cfg.DryRun /\ (cfg.ESXiUsername = "" \/ cfg.ESXiPassword = "")
    THEN "ESXi username and password are required for certificate upload"
    ELSE IF cfg.KeySize # 2048 /\ cfg.KeySize # 4096 THEN "invalid key size"
    ELSE IF ~ThresholdValid(cfg.Threshold) THEN "invalid threshold"
    ELSE IF cfg.LogLevel \notin LogLevels THEN "invalid log level"
    ELSE "nil"

\* ValidateConfig(config): the error returned, "nil" for none
ValidateConfig(cfg) ==
    IF cfg.Hostname = "" THEN "hostname is required"
    ELSE IF cfg.Route53KeyID = "" \/ cfg.Route53SecretKey = ""
    THEN "AWS credentials for Route53 are required"
    ELSE IF cfg.DryRun /\ cfg.Force THEN "cannot use dry-run and force together"
    ELSE IF ~cfg.DryRun /\ cfg.Domain = "" THEN "domain is required for Route53 DNS validation"
    ELSE IF ~cfg.DryRun /\ cfg.Email = "" THEN "email is required for ACME registration"
    ELSE IF ~cfg.DryRun /\ (cfg.ESXiUsername = "" \/ cfg.ESXiPassword = "")
    THEN "ESXi username and password are required for certificate upload"
    ELSE IF cfg.KeySize # 2048 /\ cfg.KeySize # 4096 THEN "invalid key size"
    ELSE IF ~ThresholdValid(cfg.Threshold) THEN "invalid threshold"
    ELSE IF cfg.LogLevel \notin LogLevels THEN "invalid log level"
    ELSE "nil"

\* what one source (config file, environment, command line) can supply: the host
\* name, the account details (domain, e-mail, ESXi user and password) together, a
\* zero threshold, each AWS credential, each boolean, a key size
SourceInputs ==
    {[k \in Keys |->
        IF k = "hostname" THEN h
        ELSE IF k = "domain" THEN (IF a THEN Supplied("lab.example.com") ELSE Absent(k))
        ELSE IF k = "email" THEN (IF a THEN Supplied("admin@example.com") ELSE Absent(k))
        ELSE IF k = "esxi_username" THEN (IF a THEN Supplied("root") ELSE Absent(k))
        ELSE IF k = "esxi_password" THEN (IF a THEN Supplied("secret") ELSE Absent(k))
        ELSE IF k = "threshold" THEN th
        ELSE IF k = "log_level" THEN Absent(k)
        ELSE IF k = "aws_key_id" THEN kid
        ELSE IF k = "aws_secret_key" THEN sec
        ELSE IF k = "dry_run" THEN dry
        ELSE IF k = "force" THEN force
        ELSE ks] :
     h \in {Absent("hostname"), Supplied("esxi1")},
     a \in BOOLEAN,
     th \in {Absent("threshold"), Supplied(Fin(0, 1))},
     kid \in {Absent("aws_key_id"), Supplied("AKIAEXAMPLE")},
     sec \in {Absent("aws_secret_key"), Supplied("aws-secret")},
     dry \in {Absent("dry_run"), Supplied(FALSE), Supplied(TRUE)},
     force \in {Absent("force"), Supplied(FALSE), Supplied(TRUE)},
     ks \in {Absent("key_size"), Supplied(0), Supplied(2048)}}

\* the value of each key from the highest source that supplied it so far, src
\* being higher than every source before it
Highest(top, src) == [k \in Keys |-> IF src[k].given THEN src[k].v ELSE top[k]]

\* the key sizes generatePrivateKey is called with: the multiples of 64 up to 8192
KeySizes == {64 * k : k \in 0..128}

\* generatePrivateKey generating a key of whatever size is configured
generatePrivateKey_AnySize(cfg) ==
    [bits |-> cfg.KeySize, config |-> cfg]

\* generatePrivateKey(config): the size of the key rsa.GenerateKey is asked for, and
\* the function's own copy of config when it returns
generatePrivateKey(cfg) ==
    LET own == IF cfg.KeySize # 2048 /\ cfg.KeySize # 4096
               THEN [cfg EXCEPT !.KeySize = 4096] ELSE cfg
    IN [bits |-> own.KeySize, config |-> own]

(***************************************************************************)
(* Two invocations of generateCertificate at once, file access by file     *)
(* access, on one cache directory                                          *)
(***************************************************************************)
RunIds == {1, 2}

\* the two invocations have different hostnames
RunHost(r) == IF r = 1 THEN "esxi1" ELSE "esxi2"

Paths == {CertPath(h) : h \in Hosts} \cup {KeyPath(h) : h \in Hosts}

\* the ACME outcomes the two invocations draw from: the error of Obtain, or a
\* SHA256WithRSA certificate valid from t to the latest date
ConcurrentAcme(t) ==
    {a \in AcmeOutcomes(t) :
        /\ a.err \in {"nil", "failed to obtain certificate"}
        /\ a.err = "nil" => (a.cert.NotAfter = MaxTime /\ a.cert.SignatureAlgorithm = SHA256WithRSA)}

RunAt(p) == [pc |-> p, certPath |-> NoPath, keyPath |-> NoPath, err |-> "running"]
RunReturns(cp, kp, err) == [pc |-> "done", certPath |-> cp, keyPath |-> kp, err |-> err]

\* getCachedCertificate after os.Stat(certPath), the file being f
AfterStatCert(f) == IF f.st = "missing" THEN RunAt("acme") ELSE RunAt("statkey")

\* getCachedCertificate after os.Stat(keyPath), the file being f
AfterStatKey(f) == IF f.st = "missing" THEN RunAt("acme") ELSE RunAt("readcert")

\* getCachedCertificate from os.ReadFile(certPath) on, the file being f and the key
\* file having been found, and generateCertificate returning the cached paths
AfterReadCert(cfg, f, t) ==
    LET cached == getCachedCertificate(cfg, f, PemFile, t) IN
    IF cached.found THEN RunReturns(cached.certPath, cached.keyPath, "nil")
    ELSE RunAt("acme")

(***************************************************************************)
(* Initial states                                                          *)
(***************************************************************************)
NoGen == [called |-> FALSE, host |-> "",
          res |-> [certPath |-> NoPath, keyPath |-> NoPath, err |-> "nil"],
          cached |-> CacheMiss, had |-> FALSE, contacted |-> FALSE, issued |-> NoCert,
          written |-> FALSE, untouched |-> TRUE]

NoInstall == [pc |-> "dial", i |-> 0, steps |-> <<>>, sessions |-> <<>>, success |-> TRUE,
              ret |-> "running", pair |-> 1, remote |-> InitRemote]

NoInsp == [called |-> FALSE, at |-> 0, threshold |-> Fin(0, 1),
           res |-> [needsRenewal |-> FALSE, cert |-> NoCert, err |-> "nil"],
           dials |-> 0, first |-> "none"]

NoGet == [called |-> FALSE, host |-> "", force |-> FALSE, at |-> 0, res |-> CacheMiss,
          again |-> FALSE, untouched |-> TRUE]

InitCache ==
    /\ cacheDir = FALSE
    /\ certFile = [h \in Hosts |-> MissingFile]
    /\ keyFile = [h \in Hosts |-> MissingFile]
    /\ lastGet = NoGet

\* runWorkflow is entered with cfg; its first dependency call is deps.AWSValidator
InitRun(cfg) ==
    /\ config = cfg
    /\ pc = "aws"
    /\ calls = <<>>
    /\ chk = NoCheck
    /\ out = NoOutcomes
    /\ ret = "running"

\* uploadCertificate is entered; nothing has been called on the service system
NoUpload == [pc |-> "read", ret |-> "running", calls |-> <<>>, registry |-> "none",
             wasRunning |-> FALSE, ensured |-> FALSE, sshErr |-> "running",
             stopped |-> "none", certPath |-> NoPath, keyPath |-> NoPath,
             data |-> [cert |-> NoPath, key |-> NoPath]]

\* uploadCertificate has not been called
UploadIdle == [NoUpload EXCEPT !.pc = "idle"]

\* performSSHCertificateInstallation has not been called
InstallIdle == [NoInstall EXCEPT !.pc = "idle"]

\* validateCertificateWithDialer has not been called
NoValidation == [pc |-> "idle", old |-> 0, start |-> 0, deadline |-> 0, interval |-> 1,
                 polls |-> 0, reads |-> 0, last |-> "none", lastAt |-> 0, lastDiff |-> 0,
                 overHour |-> FALSE, continued |-> TRUE,
                 ret |-> [rotated |-> FALSE, err |-> "nil"]]

\* parseArgs after NewConfigManager and LoadDefaults; "top" is the value of each key
\* from the highest source that supplied it so far, the defaults being the lowest
NoKey == [called |-> FALSE, asked |-> 0, bits |-> 0, after |-> 0]

NoConfigManager == [stage |-> "file", values |-> LoadDefaults(NoValues),
                    top |-> LoadDefaults(NoValues), config |-> BuildConfig(NoValues),
                    err |-> "running", key |-> NoKey]

\* no invocation has begun
NoRun == [pc |-> "idle", force |-> FALSE, issued |-> NoCert,
          solo |-> [cf |-> MissingFile, kf |-> MissingFile],
          same |-> TRUE, touched |-> {},
          res |-> [certPath |-> NoPath, keyPath |-> NoPath, err |-> "none"]]

(***************************************************************************)
(* The log.  main is followed twice, on the same configuration apart from  *)
(* the ESXi password, the AWS secret key and the AWS session token, and    *)
(* with the same answers of everything outside the program.                *)
(***************************************************************************)
LOG_ERROR == 0
LOG_WARN == 1
LOG_INFO == 2
LOG_DEBUG == 3

\* parseLogLevel(level)
parseLogLevel(level) ==
    IF level = "ERROR" THEN LOG_ERROR
    ELSE IF level \in {"WARN", "WARNING"} THEN LOG_WARN
    ELSE IF level = "INFO" THEN LOG_INFO
    ELSE IF level = "DEBUG" THEN LOG_DEBUG
    ELSE LOG_INFO

RECURSIVE Repeat(_, _)
\* strings.Repeat(s, n)
Repeat(s, n) == IF n = 0 THEN "" ELSE s \o Repeat(s, n - 1)

\* maskPassword handing the password back as it is
maskPassword_Plain(password) == password

\* maskPassword(password)
maskPassword(password) ==
    IF Len(password) <= 2 THEN "****" ELSE Repeat("*", Len(password))

SecretRuns == {1, 2}

Passwords == {"", "ab", "abc", "xyz", "abcd"}
SecretKeys == {"", "wJalrXUt", "je7MtGbC"}
SessionTokens == {"", "FQoGZXIv", "AQoDYXdz"}
Secrets == [ESXiPassword : Passwords, Route53SecretKey : SecretKeys,
            Route53SessionToken : SessionTokens]

\* the configuration without its secrets: a dry run or not, at any log level
PublicConfig(dry, level) ==
    [Hostname |-> "esxi1", Domain |-> "lab.example.com", Email |-> "admin@example.com",
     Threshold |-> Fin(33, 100), LogLevel |-> level, Route53KeyID |-> "AKIAEXAMPLE",
     Route53SecretKey |-> "", DryRun |-> dry, Force |-> FALSE, KeySize |-> 4096,
     ESXiUsername |-> "root", ESXiPassword |-> ""]

\* the Config that BuildConfig returns for the public part pub and the secrets sec
ConfigOf(pub, sec) ==
    [pub EXCEPT !.Route53SecretKey = sec.Route53SecretKey, !.ESXiPassword = sec.ESXiPassword]

\* logError, logWarn, logInfo, logDebug: the line is printed when currentLogLevel,
\* run.level, is at least the level of the line
Emit(run, level, line) ==
    IF run.level >= level THEN [run EXCEPT !.lines = Append(@, line)] ELSE run

\* the keys whose values are secrets, in the two orders the iteration over cm.values
\* is followed in
SecretKeyOrders == {<<"esxi_password", "aws_secret_key", "aws_session_token">>,
                    <<"aws_session_token", "aws_secret_key", "esxi_password">>}

\* cm.values[key].Value for the keys above
SecretValue(sec, key) ==
    IF key = "esxi_password" THEN sec.ESXiPassword
    ELSE IF key = "aws_secret_key" THEN sec.Route53SecretKey
    ELSE sec.Route53SessionToken

\* PrintConfigSources: a heading, then a line with the value of every key that was
\* Set (a secret is Set when it is not empty); each through logDebug
PrintConfigSources(run, sec, ord) ==
    LET all == [i \in 1..Len(ord) |->
                  <<"[DEBUG]", "  %s: %v (from %s)", ord[i], SecretValue(sec, ord[i])>>]
        set == SelectSeq(all, LAMBDA l : l[4] # "")
        head == Emit(run, LOG_DEBUG, <<"[DEBUG]", "Configuration sources:">>)
    IN IF head.level >= LOG_DEBUG THEN [head EXCEPT !.lines = @ \o set] ELSE head

\* main up to setupLogging: parseArgs validates the configuration and, for the log
\* level "DEBUG", prints the sources; on an error main logs it and exits
AfterParseArgs(run, pub, sec, ord) ==
    LET cfg == ConfigOf(pub, sec)
        err == ValidateConfig(cfg)
    IN IF err # "nil"
       THEN [Emit(run, LOG_ERROR, <<"[ERROR]", "Error parsing arguments: %s", err>>)
                EXCEPT !.pc = "exit"]
       ELSE IF cfg.LogLevel = "DEBUG"
       THEN [PrintConfigSources(run, sec, ord) EXCEPT !.pc = "setup"]
       ELSE [run EXCEPT !.pc = "setup"]

\* setupLogging(config.LogFile, config.LogLevel): currentLogLevel is set; when the log
\* file cannot be opened the function returns before its logInfo
AfterSetupLogging(run, pub, opened) ==
    LET set == [run EXCEPT !.level = parseLogLevel(pub.LogLevel), !.pc = "workflow"] IN
    IF ~opened THEN set
    ELSE Emit(set, LOG_INFO, <<"[INFO]", "Logging to %s with level %s", pub.LogLevel>>)

\* what runWorkflow comes to before the installation over SSH: a dependency fails,
\* the run ends without a renewal, or performSSHCertificateInstallation is reached
WorkflowAnswers == {"fails", "returns", "installs"}

\* runWorkflow up to performSSHCertificateInstallation
AfterRunWorkflow(run, pub, answer) ==
    LET started == Emit(run, LOG_INFO, <<"[INFO]", "Starting %s">>) IN
    IF answer = "fails"
    THEN [Emit(started, LOG_ERROR, <<"[ERROR]", "Workflow failed: %v">>) EXCEPT !.pc = "exit"]
    ELSE IF answer = "returns" \/ pub.DryRun THEN [started EXCEPT !.pc = "done"]
    ELSE [started EXCEPT !.pc = "ssh"]

\* performSSHCertificateInstallation: its three first log calls, and the rest of the
\* run, which logs nothing of the configuration but the host name
AfterPerformSSH(run, pub, sec, ok) ==
    LET l1 == Emit(run, LOG_INFO, <<"[INFO]", "Performing SSH certificate installation...">>)
        l2 == Emit(l1, LOG_DEBUG, <<"[DEBUG]", "SSH connection: %s@%s:22",
                                    pub.ESXiUsername, pub.Hostname>>)
        l3 == Emit(l2, LOG_DEBUG, <<"[DEBUG]", "SSH password: %s",
                                    maskPassword(sec.ESXiPassword)>>)
    IN IF ok THEN [l3 EXCEPT !.pc = "done"]
       ELSE [Emit(l3, LOG_ERROR, <<"[ERROR]", "Workflow failed: %v">>) EXCEPT !.pc = "exit"]

NoSecrets == [ESXiPassword |-> "", Route53SecretKey |-> "", Route53SessionToken |-> ""]

\* main is entered: currentLogLevel is LOG_INFO, nothing is logged
MainEntered == [pc |-> "parse", level |-> LOG_INFO, lines |-> <<>>]

NoLogs == [pub |-> PublicConfig(FALSE, "INFO"), sec |-> [r \in SecretRuns |-> NoSecrets],
           run |-> [r \in SecretRuns |-> [MainEntered EXCEPT !.pc = "idle"]]]

(***************************************************************************)
(* version.CheckForUpdates and version.GetUpdateNotification               *)
(***************************************************************************)
\* time.After(10 * time.Second), in seconds
UpdateTimeout == 10

\* done := make(chan bool, 1)
DoneCapacity == 1

\* a send on a channel without buffer: it goes through while the caller receives
CanSend_Unbuffered(done, receiving) == receiving

\* done <- true can go through: the buffer of the channel has room
CanSend(done, receiving) == Len(done) < DoneCapacity

\* what latest.Check returns, when it returns
CheckAnswers == {"error", "uptodate", "outdated"}

\* the select of CheckForUpdates: on the completion the error the worker stored is
\* returned, or the result is built; on the timeout an error is returned
AfterSelect(received, err) ==
    IF ~received THEN [pc |-> "returned", ret |-> "update check timed out"]
    ELSE IF err # "nil" THEN [pc |-> "returned", ret |-> "failed to check for updates"]
    ELSE [pc |-> "build", ret |-> "running"]

\* GetUpdateNotification: empty when the check failed or the version is up to date
GetUpdateNotification(err, res) ==
    IF err # "nil" THEN ""
    ELSE IF res = "uptodate" THEN ""
    ELSE "Update available"

\* CheckForUpdates is entered: the channel is empty, res and err are nil
NoUpdateCheck == [caller |-> "entry", worker |-> "none", done |-> <<>>, res |-> "unset",
                  err |-> "nil", elapsed |-> 0, received |-> FALSE, timedOut |-> FALSE,
                  firedAt |-> 0, read |-> "none", readReceived |-> FALSE,
                  ret |-> "running", msg |-> "none", sent |-> FALSE]

NoRuns == [dir |-> FALSE, fs |-> [p \in Paths |-> MissingFile], run |-> [r \in RunIds |-> NoRun]]

InitMore ==
    /\ up = NoUpload
    /\ val = NoValidation
    /\ cm = NoConfigManager
    /\ runs = NoRuns
    /\ logs = NoLogs
    /\ upd = NoUpdateCheck

Init ==
    /\ now = 0
    /\ insp = NoInsp
    /\ gen = NoGen
    /\ inst = NoInstall
    /\ InitCache
    /\ InitRun(DefaultConfig)
    /\ InitMore

InitUpload ==
    /\ now = 0
    /\ insp = NoInsp
    /\ gen = NoGen
    /\ inst = InstallIdle
    /\ InitCache
    /\ InitRun(DefaultConfig)
    /\ InitMore

\* a run whose uploader is uploadCertificate itself
EndToEndConfigs == {cfg \in Configs : cfg.Hostname = DefaultConfig.Hostname
                                      /\ cfg.Threshold = DefaultConfig.Threshold}

InitEndToEnd ==
    /\ now = 0
    /\ insp = NoInsp
    /\ gen = NoGen
    /\ inst = InstallIdle
    /\ InitCache
    /\ \E cfg \in EndToEndConfigs : InitRun(cfg)
    /\ up = UploadIdle
    /\ val = NoValidation
    /\ cm = NoConfigManager
    /\ runs = NoRuns
    /\ logs = NoLogs
    /\ upd = NoUpdateCheck

InitSecrets ==
    /\ now = 0
    /\ insp = NoInsp
    /\ gen = NoGen
    /\ inst = NoInstall
    /\ InitCache
    /\ InitRun(DefaultConfig)
    /\ up = NoUpload
    /\ val = NoValidation
    /\ cm = NoConfigManager
    /\ runs = NoRuns
    /\ upd = NoUpdateCheck
    /\ \E dry \in BOOLEAN, level \in LogLevels, s1 \in Secrets, s2 \in Secrets :
        logs = [pub |-> PublicConfig(dry, level),
                sec |-> [r \in SecretRuns |-> IF r = 1 THEN s1 ELSE s2],
                run |-> [r \in SecretRuns |-> MainEntered]]

\* runWorkflow is entered and calls version.GetUpdateNotification first
InitUpdate ==
    /\ now = 0
    /\ insp = NoInsp
    /\ gen = NoGen
    /\ inst = NoInstall
    /\ InitCache
    /\ config = DefaultConfig
    /\ pc = "update"
    /\ calls = <<>>
    /\ chk = NoCheck
    /\ out = NoOutcomes
    /\ ret = "running"
    /\ InitMore

InitWorkflow ==
    /\ now = 0
    /\ insp = NoInsp
    /\ gen = NoGen
    /\ inst = NoInstall
    /\ InitCache
    /\ \E cfg \in Configs : InitRun(cfg)
    /\ InitMore

(***************************************************************************)
(* Actions                                                                 *)
(***************************************************************************)
Tick ==
    /\ now < MaxTime
    /\ now' = now + 1
    /\ UNCHANGED <<insp, gen, inst, cacheVars, runVars, moreVars>>

\* the inspector, called with any threshold and any dialer; insp keeps the result,
\* the number of Dial calls and the kind of answer of the first
CheckCertificate ==
    \E dial \in DialOutcomes, th \in Thresholds :
        LET r == checkCertificateDialing(<<dial, Redial>>, th, now) IN
        /\ insp' = [called |-> TRUE, at |-> now, threshold |-> th,
                    res |-> r.res, dials |-> r.dials, first |-> DialKind(dial)]
        /\ UNCHANGED <<now, gen, inst, cacheVars, runVars, moreVars>>

\* getCachedCertificate removing the entry it rejects
GetCachedCertificate_Evict ==
    \E h \in Hosts, force \in BOOLEAN :
        LET cfg == [Hostname |-> h, Force |-> force]
            res == getCachedCertificate(cfg, certFile[h], keyFile[h], now)
        IN
        /\ cacheDir' = (cacheDir \/ ~force)
        /\ certFile' = IF res.found \/ force THEN certFile ELSE [certFile EXCEPT ![h] = MissingFile]
        /\ keyFile' = IF res.found \/ force THEN keyFile ELSE [keyFile EXCEPT ![h] = MissingFile]
        /\ lastGet' = [called |-> TRUE, host |-> h, force |-> force, at |-> now,
                       res |-> res,
                       again |-> (lastGet.called /\ lastGet.host = h /\ lastGet.force = force),
                       untouched |-> (certFile' = certFile /\ keyFile' = keyFile)]
        /\ UNCHANGED <<now, insp, gen, inst, runVars, moreVars>>

\* One call of getCachedCertificate.  Without Force it creates the cache directory
\* (os.MkdirAll); it writes neither file.  lastGet keeps the call until the cache
\* directory changes; "again" records that the call before it had the same hostname
\* and Force flag, with no change of the cache directory in between.
GetCachedCertificate ==
    \E h \in Hosts, force \in BOOLEAN :
        LET cfg == [Hostname |-> h, Force |-> force] IN
        /\ cacheDir' = (cacheDir \/ ~force)
        /\ UNCHANGED <<certFile, keyFile>>
        /\ lastGet' = [called |-> TRUE, host |-> h, force |-> force, at |-> now,
                       res |-> getCachedCertificate(cfg, certFile[h], keyFile[h], now),
                       again |-> (lastGet.called /\ lastGet.host = h /\ lastGet.force = force),
                       untouched |-> (certFile' = certFile /\ keyFile' = keyFile)]
        /\ UNCHANGED <<now, insp, gen, inst, runVars, moreVars>>

\* The environment changes the cache directory between calls: an earlier run's
\* issuance wrote a file, or a file was removed, truncated or made unreadable.
\* The model follows one cached entry at a time: a hostname's files change only
\* while no other hostname has any.
OnlyEntry(h) == \A g \in Hosts \ {h} : certFile[g] = MissingFile /\ keyFile[g] = MissingFile

EnvWriteCertFile ==
    \E h \in Hosts, f \in CertFileStates :
        /\ OnlyEntry(h)
        /\ f # certFile[h]
        /\ certFile' = [certFile EXCEPT ![h] = f]
        /\ cacheDir' = TRUE
        /\ lastGet' = NoGet
        /\ UNCHANGED <<now, insp, gen, inst, keyFile, runVars, moreVars>>

EnvWriteKeyFile ==
    \E h \in Hosts, f \in KeyFileStates :
        /\ OnlyEntry(h)
        /\ f # keyFile[h]
        /\ keyFile' = [keyFile EXCEPT ![h] = f]
        /\ cacheDir' = TRUE
        /\ lastGet' = NoGet
        /\ UNCHANGED <<now, insp, gen, inst, certFile, runVars, moreVars>>

\* err := deps.AWSValidator(config)
RunAWSValidator ==
    /\ pc = "aws"
    /\ \E ok \in BOOLEAN :
        LET next == AfterAWSValidator(config, ok) IN
        /\ calls' = Append(calls, "AWSValidator")
        /\ out' = [out EXCEPT !.aws = IF ok THEN "ok" ELSE "err"]
        /\ pc' = next.pc
        /\ ret' = next.ret
    /\ UNCHANGED <<now, insp, gen, inst, cacheVars, config, chk, moreVars>>

\* deps.CertChecker(config.Hostname, config.Threshold), wired to
\* checkCertificateWithDialer as GetDefaultDependencies does
RunCertChecker ==
    /\ pc = "check"
    /\ \E dial \in DialOutcomes :
        LET res == checkCertificateWithDialer(dial, config.Threshold, now)
            next == AfterCertChecker(config, res)
        IN
        /\ calls' = Append(calls, "CertChecker")
        /\ chk' = res
        /\ pc' = next.pc
        /\ ret' = next.ret
    /\ UNCHANGED <<now, insp, gen, inst, cacheVars, config, out, moreVars>>

\* deps.CertChecker(config.Hostname, config.Threshold) of a run followed end to end:
\* the host answers with its certificate, an empty chain or not at all
CheckHostCertificate ==
    /\ pc = "check"
    /\ \E dial \in HostDialOutcomes :
        LET res == checkCertificateWithDialer(dial, config.Threshold, now)
            next == AfterCertChecker(config, res)
        IN
        /\ calls' = Append(calls, "CertChecker")
        /\ chk' = res
        /\ pc' = next.pc
        /\ ret' = next.ret
    /\ UNCHANGED <<now, insp, gen, inst, cacheVars, config, out, moreVars>>

\* certPath, keyPath, err := deps.CertGenerator(config)
RunCertGenerator ==
    /\ pc = "generate"
    /\ \E ok \in BOOLEAN :
        LET next == AfterCertGenerator(config, ok) IN
        /\ calls' = Append(calls, "CertGenerator")
        /\ out' = [out EXCEPT !.gen = IF ok THEN "ok" ELSE "err",
                              !.certPath = IF ok THEN CertPath(config.Hostname) ELSE NoPath,
                              !.keyPath = IF ok THEN KeyPath(config.Hostname) ELSE NoPath]
        /\ pc' = next.pc
        /\ ret' = next.ret
    /\ UNCHANGED <<now, insp, gen, inst, cacheVars, config, chk, moreVars>>

\* err = deps.CertUploader(config, certPath, keyPath)
RunCertUploader ==
    /\ pc = "upload"
    /\ \E ok \in BOOLEAN :
        LET next == AfterCertUploader(config, ok) IN
        /\ calls' = Append(calls, "CertUploader")
        /\ out' = [out EXCEPT !.up = IF ok THEN "ok" ELSE "err"]
        /\ pc' = next.pc
        /\ ret' = next.ret
    /\ UNCHANGED <<now, insp, gen, inst, cacheVars, config, chk, moreVars>>

\* validated, err := deps.CertValidator(config.Hostname, certInfo)
RunCertValidator ==
    /\ pc = "validate"
    /\ \E validated \in BOOLEAN, ok \in BOOLEAN :
        LET next == AfterCertValidator(config, validated, ok) IN
        /\ calls' = Append(calls, "CertValidator")
        /\ out' = [out EXCEPT !.val = IF ok THEN "ok" ELSE "err", !.validated = validated]
        /\ pc' = next.pc
        /\ ret' = next.ret
    /\ UNCHANGED <<now, insp, gen, inst, cacheVars, config, chk, moreVars>>

\* One call of generateCertificate.  It calls getCachedCertificate, which creates the
\* cache directory unless Force is set; after a successful ACME exchange it creates
\* the directory itself and writes the two files of the hostname.  gen keeps the call:
\* "cached" is what the cache lookup of the call returned, "had" whether the hostname
\* had an entry before, "written" whether both os.WriteFile calls succeeded.
GenerateCertificate ==
    \E h \in Hosts, force \in BOOLEAN, acme \in AcmeOutcomes(now) :
      \E wc \in (IF acme.err = "nil" THEN WriteOutcomes ELSE {"ok"}) :
       \E wk \in (IF acme.err = "nil" /\ wc = "ok" THEN WriteOutcomes ELSE {"ok"}) :
        LET cfg == [Hostname |-> h, Force |-> force]
            res == generateCertificate(cfg, certFile[h], keyFile[h], now, acme, wc, wk)
        IN
        /\ OnlyEntry(h)
        /\ cacheDir' = (cacheDir \/ ~force \/ res.issued # NoCert)
        /\ certFile' = [certFile EXCEPT ![h] = res.certFile]
        /\ keyFile' = [keyFile EXCEPT ![h] = res.keyFile]
        /\ lastGet' = NoGet
        /\ gen' = [called |-> TRUE, host |-> h,
                   res |-> [certPath |-> res.certPath, keyPath |-> res.keyPath, err |-> res.err],
                   cached |-> getCachedCertificate(cfg, certFile[h], keyFile[h], now),
                   had |-> (certFile[h] # MissingFile /\ keyFile[h] # MissingFile),
                   contacted |-> res.contacted, issued |-> res.issued,
                   written |-> (res.issued # NoCert /\ wc = "ok" /\ wk = "ok"),
                   untouched |-> (certFile' = certFile /\ keyFile' = keyFile)]
        /\ UNCHANGED <<now, insp, inst, runVars, moreVars>>

\* generateCertificate(config) with a certificate of any dates, and what
\* getCachedCertificate returns without Force right after it, at the same clock reading
\* (a write that fails leaves the file as it was)
GenerateThenGet ==
    \E h \in {config.Hostname}, force \in BOOLEAN, acme \in ObtainOutcomes(now) :
      \E wc \in (IF acme.err = "nil" THEN WriteOutcomes \ {"partial"} ELSE {"ok"}) :
       \E wk \in (IF acme.err = "nil" /\ wc = "ok" THEN WriteOutcomes \ {"partial"} ELSE {"ok"}) :
        LET cfg == [Hostname |-> h, Force |-> force]
            res == generateCertificate(cfg, certFile[h], keyFile[h], now, acme, wc, wk)
        IN
        /\ OnlyEntry(h)
        /\ cacheDir' = TRUE
        /\ certFile' = [certFile EXCEPT ![h] = res.certFile]
        /\ keyFile' = [keyFile EXCEPT ![h] = res.keyFile]
        /\ lastGet' = NoGet
        /\ gen' = [called |-> TRUE, host |-> h, at |-> now,
                   res |-> [certPath |-> res.certPath, keyPath |-> res.keyPath, err |-> res.err],
                   issued |-> res.issued,
                   written |-> (res.issued # NoCert /\ wc = "ok" /\ wk = "ok"),
                   after |-> getCachedCertificate([Hostname |-> h, Force |-> FALSE],
                                                  res.certFile, res.keyFile, now)]
        /\ UNCHANGED <<now, insp, inst, runVars, moreVars>>

\* client, err := ssh.Dial("tcp", config.Hostname+":22", sshConfig)
SSHDial ==
    /\ inst.pc = "dial"
    /\ \E ok \in BOOLEAN :
        LET next == AfterDial(ok) IN
        inst' = [inst EXCEPT !.pc = next.pc, !.i = next.i, !.ret = next.ret]
    /\ UNCHANGED <<now, insp, gen, cacheVars, runVars, moreVars>>

\* backupExistingCertificates: one iteration of its loop
BackupStep ==
    /\ inst.pc = "backup"
    /\ \E r \in StepOutcomes, copied \in BOOLEAN :
        LET next == AfterBackup(inst.i, r) IN
        inst' = [inst EXCEPT !.pc = next.pc, !.i = next.i, !.ret = next.ret,
                             !.steps = Append(@, [cmd |-> BackupCommands[inst.i], res |-> r]),
                             !.sessions = @ \o SessionEvents(r),
                             !.remote = AfterBackupCommand(@, inst.i, r, copied)]
    /\ UNCHANGED <<now, insp, gen, cacheVars, runVars, moreVars>>

\* copyCertificateFiles: the upload of the certificate
CopyCertificate ==
    /\ inst.pc = "copycert"
    /\ \E r \in StepOutcomes, truncated \in BOOLEAN :
        LET next == AfterCopyCertificate(r) IN
        inst' = [inst EXCEPT !.pc = next.pc, !.i = next.i, !.ret = next.ret,
                             !.steps = Append(@, [cmd |-> UploadCertificate, res |-> r]),
                             !.sessions = @ \o SessionEvents(r),
                             !.remote.crt = AfterCat(@, PairFile(inst.pair), r, truncated)]
    /\ UNCHANGED <<now, insp, gen, cacheVars, runVars, moreVars>>

\* copyCertificateFiles: the upload of the key
CopyKey ==
    /\ inst.pc = "copykey"
    /\ \E r \in StepOutcomes, truncated \in BOOLEAN :
        LET next == AfterCopyKey(r) IN
        inst' = [inst EXCEPT !.pc = next.pc, !.i = next.i, !.ret = next.ret,
                             !.steps = Append(@, [cmd |-> UploadKey, res |-> r]),
                             !.sessions = @ \o SessionEvents(r),
                             !.remote.key = AfterCat(@, PairFile(inst.pair), r, truncated)]
    /\ UNCHANGED <<now, insp, gen, cacheVars, runVars, moreVars>>

\* performSSHCertificateInstallation is called again on the same host, by a later
\* run, with the certificate and key of the next issuance
InstallAgain ==
    /\ inst.pc = "done"
    /\ inst.pair < MaxInstalls
    /\ inst' = [NoInstall EXCEPT !.pair = inst.pair + 1, !.remote = inst.remote]
    /\ UNCHANGED <<now, insp, gen, cacheVars, runVars, moreVars>>

\* copyCertificateFiles: one iteration of the permission loop
SetPermission ==
    /\ inst.pc = "perm"
    /\ \E r \in StepOutcomes :
        LET next == AfterPermission(inst.i, r) IN
        inst' = [inst EXCEPT !.pc = next.pc, !.i = next.i, !.ret = next.ret,
                             !.steps = Append(@, [cmd |-> PermissionCommands[inst.i], res |-> r]),
                             !.sessions = @ \o SessionEvents(r)]
    /\ UNCHANGED <<now, insp, gen, cacheVars, runVars, moreVars>>

\* restartESXiServicesViaSSH: one iteration of its loop, and its return after the last
RestartService ==
    /\ inst.pc = "restart"
    /\ \E r \in StepOutcomes :
        LET cmd == RestartCommands[inst.i]
            success == RestartSuccess(cmd, r, inst.success)
            next == AfterRestart(inst.i, success)
        IN
        inst' = [inst EXCEPT !.pc = next.pc, !.i = next.i, !.ret = next.ret,
                             !.success = success,
                             !.steps = Append(@, [cmd |-> cmd, res |-> r]),
                             !.sessions = @ \o SessionEvents(r)]
    /\ UNCHANGED <<now, insp, gen, cacheVars, runVars, moreVars>>

\* err = deps.CertUploader(config, certPath, keyPath), wired to uploadCertificate as
\* GetDefaultDependencies does: the call, with the paths deps.CertGenerator returned
CallCertUploader ==
    /\ pc = "upload"
    /\ up.pc = "idle"
    /\ up' = [NoUpload EXCEPT !.certPath = out.certPath, !.keyPath = out.keyPath]
    /\ calls' = Append(calls, "CertUploader")
    /\ UNCHANGED <<now, insp, gen, inst, cacheVars, config, pc, chk, out, ret, val, cm, runs, logs, upd>>

\* uploadCertificate has returned to runWorkflow
CertUploaderReturns ==
    /\ pc = "upload"
    /\ up.pc = "returned"
    /\ LET next == AfterCertUploader(config, up.ret = "nil") IN
        /\ out' = [out EXCEPT !.up = IF up.ret = "nil" THEN "ok" ELSE "err"]
        /\ pc' = next.pc
        /\ ret' = next.ret
    /\ up' = [up EXCEPT !.pc = "left"]
    /\ UNCHANGED <<now, insp, gen, inst, cacheVars, config, calls, chk, val, cm, runs, logs, upd>>

\* uploadCertificate: os.ReadFile of the certificate and of the key
UploadReadFiles ==
    /\ up.pc = "read"
    /\ \E certOk \in BOOLEAN, keyOk \in BOOLEAN :
        LET next == AfterReadFiles(certOk, keyOk) IN
        up' = [up EXCEPT !.pc = next.pc, !.ret = next.ret,
                         !.data = [cert |-> IF certOk THEN up.certPath ELSE NoPath,
                                   key |-> IF certOk /\ keyOk THEN up.keyPath ELSE NoPath]]
    /\ UNCHANGED <<now, insp, gen, inst, cacheVars, runVars, val, cm, runs, logs, upd>>

\* installCertificateViaSSH: govmomi.NewClient, the host system, its service system
UploadConnect ==
    /\ up.pc = "connect"
    /\ \E c \in ConnectOutcomes :
        LET next == AfterConnect(c) IN
        up' = [up EXCEPT !.pc = next.pc, !.ret = next.ret]
    /\ UNCHANGED <<now, insp, gen, inst, cacheVars, runVars, val, cm, runs, logs, upd>>

\* _, err = ensureSSHServiceRunning(ctx, serviceSystem)
EnsureRunning ==
    /\ up.pc = "ensure"
    /\ \E q \in RegistryAnswers, startOk \in BOOLEAN :
        LET res == ensureSSHServiceRunning(q, startOk)
            next == AfterEnsureRunning(res.err)
        IN
        up' = [up EXCEPT !.pc = next.pc, !.ret = next.ret,
                         !.calls = @ \o res.calls,
                         !.registry = q,
                         !.wasRunning = res.wasRunning,
                         !.ensured = (res.err = "nil")]
    /\ UNCHANGED <<now, insp, gen, inst, cacheVars, runVars, val, cm, runs, logs, upd>>

\* sshErr := performSSHCertificateInstallation(config, certData, keyData): the call
PerformInstallation ==
    /\ up.pc = "install"
    /\ inst.pc = "idle"
    /\ up' = [up EXCEPT !.pc = "installing", !.calls = Append(@, "Install")]
    /\ inst' = NoInstall
    /\ UNCHANGED <<now, insp, gen, cacheVars, runVars, val, cm, runs, logs, upd>>

\* performSSHCertificateInstallation has returned: one call of stopSSHService, whose
\* failure is only logged, and the return of sshErr
StopService ==
    /\ up.pc = "installing"
    /\ inst.pc = "done"
    /\ \E stopOk \in BOOLEAN :
        LET next == AfterInstallation(up.wasRunning, inst.ret) IN
        up' = [up EXCEPT !.pc = "returned", !.ret = next.ret, !.sshErr = inst.ret,
                         !.calls = IF next.stop THEN Append(@, "Stop") ELSE @,
                         !.stopped = IF ~next.stop THEN "none"
                                     ELSE IF stopOk THEN "ok" ELSE "failed"]
    /\ UNCHANGED <<now, insp, gen, inst, cacheVars, runVars, val, cm, runs, logs, upd>>

\* runWorkflow after deps.CertUploader returned: deps.CertValidator is called unless
\* the upload failed
ValidateAfterUpload ==
    /\ up.pc = "returned"
    /\ AfterCertUploader(config, up.ret = "nil").pc = "validate"
    /\ up' = [up EXCEPT !.pc = "validating", !.calls = Append(@, "CertValidator")]
    /\ UNCHANGED <<now, insp, gen, inst, cacheVars, runVars, val, cm, runs, logs, upd>>

\* validateCertificateWithDialer is called with the certificate read before the
\* installation, a maximal duration and a check interval
ValidatorStart ==
    /\ val.pc = "idle"
    /\ \E old \in Times, maxDuration \in MaxDurations, interval \in CheckIntervals :
        /\ now + maxDuration <= MaxTime
        /\ val' = [NoValidation EXCEPT !.pc = "loop", !.old = old, !.start = now,
                                       !.deadline = now + maxDuration, !.interval = interval]
    /\ UNCHANGED <<now, insp, gen, inst, cacheVars, runVars, up, cm, runs, logs, upd>>

\* for time.Now().Before(deadline): one dial, and the sleep of checkInterval unless
\* the call returns.  val keeps what the poll read: "last" the kind of answer,
\* "lastDiff" the distance of the leaf's NotAfter from the previous one, "overHour"
\* whether some poll read a leaf more than an hour away, "continued" whether every
\* poll that failed or read an empty chain left the loop running, "polls" the number
\* of polls, 2 standing for two or more.
ValidatorPoll ==
    /\ val.pc = "loop"
    /\ Before(now, val.deadline)
    /\ \E dial \in DialOutcomes :
        LET next == AfterPoll(dial, val.old)
            kind == IF dial.err THEN "fail" ELSE IF Len(dial.certs) = 0 THEN "empty" ELSE "leaf"
            diff == IF kind = "leaf" THEN AbsDiff(dial.certs[1].NotAfter, val.old) ELSE 0
        IN
        /\ now' = IF next.pc = "loop" THEN AfterSleep(now, val.interval) ELSE now
        /\ val' = [val EXCEPT !.pc = next.pc,
                              !.polls = IF @ < 2 THEN @ + 1 ELSE @,
                              !.reads = IF kind = "leaf" THEN @ + 1 ELSE @,
                              !.last = kind, !.lastAt = now, !.lastDiff = diff,
                              !.overHour = (@ \/ diff > OneHour),
                              !.continued = (@ /\ (kind # "leaf" => next.pc = "loop")),
                              !.ret = [rotated |-> next.rotated, err |-> next.err]]
    /\ UNCHANGED <<insp, gen, inst, cacheVars, runVars, up, cm, runs, logs, upd>>

\* the deadline has passed: logWarn and return false, nil
ValidatorTimeout ==
    /\ val.pc = "loop"
    /\ ~Before(now, val.deadline)
    /\ val' = [val EXCEPT !.pc = "done", !.ret = [rotated |-> FALSE, err |-> "nil"]]
    /\ UNCHANGED <<now, insp, gen, inst, cacheVars, runVars, up, cm, runs, logs, upd>>

\* parseArgs: cm.LoadConfigFile(configFile); an unreadable or malformed file ends
\* parseArgs with an error
ParseConfigFile ==
    /\ cm.stage = "file"
    /\ \/ cm' = [cm EXCEPT !.stage = "env"]         \* no path given, or no such file
       \/ \E file \in SourceInputs :
            cm' = [cm EXCEPT !.stage = "env",
                             !.values = LoadConfigFile(@, file),
                             !.top = Highest(@, file)]
       \/ cm' = [cm EXCEPT !.stage = "done", !.err = "failed to load config file"]
    /\ UNCHANGED <<now, insp, gen, inst, cacheVars, runVars, up, val, runs, logs, upd>>

\* parseArgs: cm.LoadEnvironmentVariables()
ParseEnvironment ==
    /\ cm.stage = "env"
    /\ \E env \in SourceInputs :
        cm' = [cm EXCEPT !.stage = "flags",
                         !.values = LoadEnvironmentVariables(@, env),
                         !.top = Highest(@, env)]
    /\ UNCHANGED <<now, insp, gen, inst, cacheVars, runVars, up, val, runs, logs, upd>>

\* parseArgs: the flags, BuildConfig and ValidateConfig
ParseFlags ==
    /\ cm.stage = "flags"
    /\ \E flags \in SourceInputs :
        LET values == ApplyFlags(cm.values, flags)
            cfg == BuildConfig(values)
        IN cm' = [cm EXCEPT !.stage = "done",
                            !.values = values,
                            !.top = Highest(@, flags),
                            !.config = cfg,
                            !.err = ValidateConfig(cfg)]
    /\ UNCHANGED <<now, insp, gen, inst, cacheVars, runVars, up, val, runs, logs, upd>>

\* privateKey := generatePrivateKey(config), the caller keeping its own config
GeneratePrivateKey ==
    /\ \E ks \in KeySizes :
        LET cfg == [KeySize |-> ks]
            res == generatePrivateKey(cfg)
        IN cm' = [cm EXCEPT !.key = [called |-> TRUE, asked |-> ks, bits |-> res.bits,
                                     after |-> cfg.KeySize]]
    /\ UNCHANGED <<now, insp, gen, inst, cacheVars, runVars, up, val, runs, logs, upd>>

\* generateCertificate(config) is called with the hostname of invocation r:
\* getCachedCertificate returns at once under Force, and creates the cache directory
\* otherwise.  "solo" follows the two files of the hostname as they would be had the
\* invocation run alone: as they are now, then as the invocation writes them.
RunBegin ==
    \E r \in RunIds, force \in BOOLEAN :
        LET h == RunHost(r) IN
        /\ runs.run[r].pc \in {"idle", "done"}
        /\ runs' = [runs EXCEPT
                !.dir = (@ \/ ~force),
                !.run[r] = [@ EXCEPT !.pc = IF force THEN "acme" ELSE "statcert",
                                     !.force = force,
                                     !.issued = NoCert,
                                     !.solo = [cf |-> runs.fs[CertPath(h)],
                                               kf |-> runs.fs[KeyPath(h)]],
                                     !.res = [certPath |-> NoPath, keyPath |-> NoPath,
                                              err |-> "running"]]]
        /\ UNCHANGED <<now, insp, gen, inst, cacheVars, runVars, up, val, cm, logs, upd>>

\* os.Stat(certPath)
RunStatCert ==
    \E r \in RunIds :
        LET p == CertPath(RunHost(r))
            next == AfterStatCert(runs.fs[p])
        IN
        /\ runs.run[r].pc = "statcert"
        /\ runs' = [runs EXCEPT
                !.run[r] = [@ EXCEPT !.pc = next.pc,
                                     !.touched = @ \cup {p},
                                     !.same = (@ /\ (runs.fs[p].st = "missing")
                                                    = (runs.run[r].solo.cf.st = "missing"))]]
        /\ UNCHANGED <<now, insp, gen, inst, cacheVars, runVars, up, val, cm, logs, upd>>

\* os.Stat(keyPath)
RunStatKey ==
    \E r \in RunIds :
        LET p == KeyPath(RunHost(r))
            next == AfterStatKey(runs.fs[p])
        IN
        /\ runs.run[r].pc = "statkey"
        /\ runs' = [runs EXCEPT
                !.run[r] = [@ EXCEPT !.pc = next.pc,
                                     !.touched = @ \cup {p},
                                     !.same = (@ /\ (runs.fs[p].st = "missing")
                                                    = (runs.run[r].solo.kf.st = "missing"))]]
        /\ UNCHANGED <<now, insp, gen, inst, cacheVars, runVars, up, val, cm, logs, upd>>

\* os.ReadFile(certPath) and the checks on what was read
RunReadCert ==
    \E r \in RunIds :
        LET h == RunHost(r)
            p == CertPath(h)
            cfg == [Hostname |-> h, Force |-> runs.run[r].force]
            next == AfterReadCert(cfg, runs.fs[p], now)
        IN
        /\ runs.run[r].pc = "readcert"
        /\ runs' = [runs EXCEPT
                !.run[r] = [@ EXCEPT !.pc = next.pc,
                                     !.touched = @ \cup {p},
                                     !.same = (@ /\ runs.fs[p] = runs.run[r].solo.cf),
                                     !.res = [certPath |-> next.certPath,
                                              keyPath |-> next.keyPath, err |-> next.err]]]
        /\ UNCHANGED <<now, insp, gen, inst, cacheVars, runVars, up, val, cm, logs, upd>>

\* the ACME exchange, which touches no cache file
RunAcme ==
    \E r \in RunIds, acme \in ConcurrentAcme(now) :
        /\ runs.run[r].pc = "acme"
        /\ runs' = [runs EXCEPT
                !.run[r] = IF acme.err # "nil"
                           THEN [@ EXCEPT !.pc = "done",
                                          !.res = [certPath |-> NoPath, keyPath |-> NoPath,
                                                   err |-> acme.err]]
                           ELSE [@ EXCEPT !.pc = "writecert", !.issued = acme.cert]]
        /\ UNCHANGED <<now, insp, gen, inst, cacheVars, runVars, up, val, cm, logs, upd>>

\* os.MkdirAll(cacheDir) and os.WriteFile(certPath, certificates.Certificate)
RunWriteCert ==
    \E r \in RunIds, w \in WriteOutcomes :
        LET p == CertPath(RunHost(r))
            content == CertPem(runs.run[r].issued)
        IN
        /\ runs.run[r].pc = "writecert"
        /\ runs' = [runs EXCEPT
                !.dir = TRUE,
                !.fs[p] = WriteFile(@, content, w),
                !.run[r] = [@ EXCEPT !.pc = IF w = "ok" THEN "writekey" ELSE "done",
                                     !.touched = @ \cup {p},
                                     !.solo.cf = WriteFile(@, content, w),
                                     !.res = IF w = "ok" THEN @
                                             ELSE [certPath |-> NoPath, keyPath |-> NoPath,
                                                   err |-> "failed to write cert file"]]]
        /\ UNCHANGED <<now, insp, gen, inst, cacheVars, runVars, up, val, cm, logs, upd>>

\* os.WriteFile(keyPath, certificates.PrivateKey) and the return of the two paths
RunWriteKey ==
    \E r \in RunIds, w \in WriteOutcomes :
        LET h == RunHost(r)
            p == KeyPath(h)
            content == KeyPem(runs.run[r].issued)
        IN
        /\ runs.run[r].pc = "writekey"
        /\ runs' = [runs EXCEPT
                !.fs[p] = WriteFile(@, content, w),
                !.run[r] = [@ EXCEPT !.pc = "done",
                                     !.touched = @ \cup {p},
                                     !.solo.kf = WriteFile(@, content, w),
                                     !.res = IF w = "ok"
                                             THEN [certPath |-> CertPath(h), keyPath |-> p,
                                                   err |-> "nil"]
                                             ELSE [certPath |-> NoPath, keyPath |-> NoPath,
                                                   err |-> "failed to write key file"]]]
        /\ UNCHANGED <<now, insp, gen, inst, cacheVars, runVars, up, val, cm, logs, upd>>

\* the runs of main that are at position p take the step "after"
LogStep(p, after(_)) ==
    /\ \E r \in SecretRuns : logs.run[r].pc = p
    /\ logs' = [logs EXCEPT !.run = [r \in SecretRuns |->
                                        IF logs.run[r].pc = p THEN after(r) ELSE logs.run[r]]]
    /\ UNCHANGED <<now, insp, gen, inst, cacheVars, runVars, up, val, cm, runs, upd>>

\* config, err := parseArgs(), and the exit of main on an error
MainParseArgs ==
    \E ord \in SecretKeyOrders :
        LogStep("parse", LAMBDA r : AfterParseArgs(logs.run[r], logs.pub, logs.sec[r], ord))

\* setupLogging(config.LogFile, config.LogLevel)
MainSetupLogging ==
    \E opened \in BOOLEAN :
        LogStep("setup", LAMBDA r : AfterSetupLogging(logs.run[r], logs.pub, opened))

\* runWorkflow(config, deps) up to the installation
MainRunWorkflow ==
    \E answer \in WorkflowAnswers :
        LogStep("workflow", LAMBDA r : AfterRunWorkflow(logs.run[r], logs.pub, answer))

\* performSSHCertificateInstallation and the rest of the run
MainPerformSSH ==
    \E ok \in BOOLEAN :
        LogStep("ssh", LAMBDA r : AfterPerformSSH(logs.run[r], logs.pub, logs.sec[r], ok))

\* go func() { ... }(): the worker goroutine is started and the caller reaches select
StartWorker ==
    /\ upd.caller = "entry"
    /\ upd' = [upd EXCEPT !.caller = "select", !.worker = "check"]
    /\ UNCHANGED <<now, insp, gen, inst, cacheVars, runVars, up, val, cm, runs, logs>>

\* a second passes on the timer of time.After
TimerTick ==
    /\ upd.caller = "select"
    /\ upd.elapsed < UpdateTimeout
    /\ upd' = [upd EXCEPT !.elapsed = @ + 1]
    /\ UNCHANGED <<now, insp, gen, inst, cacheVars, runVars, up, val, cm, runs, logs>>

\* res, err = latest.Check(githubTag, currentVer) returns in the worker
WorkerCheck ==
    /\ upd.worker = "check"
    /\ \E a \in CheckAnswers :
        upd' = [upd EXCEPT !.worker = "send",
                           !.res = IF a = "error" THEN "unset" ELSE a,
                           !.err = IF a = "error" THEN "error" ELSE "nil"]
    /\ UNCHANGED <<now, insp, gen, inst, cacheVars, runVars, up, val, cm, runs, logs>>

\* done <- true in the worker, which ends after it
WorkerSend ==
    /\ upd.worker = "send"
    /\ CanSend(upd.done, upd.caller = "select")
    /\ upd' = [upd EXCEPT !.worker = "finished", !.done = Append(@, TRUE), !.sent = TRUE]
    /\ UNCHANGED <<now, insp, gen, inst, cacheVars, runVars, up, val, cm, runs, logs>>

\* select, case <-done
SelectDone ==
    /\ upd.caller = "select"
    /\ Len(upd.done) > 0
    /\ LET next == AfterSelect(TRUE, upd.err) IN
        upd' = [upd EXCEPT !.caller = next.pc, !.ret = next.ret, !.done = Tail(@),
                           !.received = TRUE]
    /\ UNCHANGED <<now, insp, gen, inst, cacheVars, runVars, up, val, cm, runs, logs>>

\* select, case <-time.After(10 * time.Second)
SelectTimeout ==
    /\ upd.caller = "select"
    /\ upd.elapsed >= UpdateTimeout
    /\ LET next == AfterSelect(FALSE, upd.err) IN
        upd' = [upd EXCEPT !.caller = next.pc, !.ret = next.ret, !.timedOut = TRUE,
                           !.firedAt = upd.elapsed]
    /\ UNCHANGED <<now, insp, gen, inst, cacheVars, runVars, up, val, cm, runs, logs>>

\* updateInfo := &UpdateInfo{...}: res is read, and CheckForUpdates returns
BuildUpdateInfo ==
    /\ upd.caller = "build"
    /\ upd' = [upd EXCEPT !.caller = "returned", !.ret = "nil", !.read = upd.res,
                           !.readReceived = upd.received]
    /\ UNCHANGED <<now, insp, gen, inst, cacheVars, runVars, up, val, cm, runs, logs>>

\* GetUpdateNotification returns to runWorkflow, which logs the notification unless
\* it is empty and goes on to deps.AWSValidator
Notify ==
    /\ pc = "update"
    /\ upd.caller = "returned"
    /\ upd' = [upd EXCEPT !.caller = "left", !.msg = GetUpdateNotification(upd.ret, upd.read)]
    /\ pc' = "aws"
    /\ UNCHANGED <<now, insp, gen, inst, cacheVars, config, calls, chk, out, ret, up, val,
                   cm, runs, logs>>

(***************************************************************************)
(* Specifications                                                          *)
(***************************************************************************)
NextUpdate ==
    \/ StartWorker
    \/ TimerTick
    \/ WorkerCheck
    \/ WorkerSend
    \/ SelectDone
    \/ SelectTimeout
    \/ BuildUpdateInfo
    \/ Notify

SpecUpdate == InitUpdate /\ [][NextUpdate]_vars

\* the caller and the timer go on, and so does the worker once latest.Check has
\* returned; latest.Check itself may never return
SpecUpdateFair ==
    /\ SpecUpdate
    /\ WF_vars(StartWorker)
    /\ WF_vars(TimerTick)
    /\ WF_vars(WorkerSend)
    /\ WF_vars(SelectDone \/ SelectTimeout)
    /\ WF_vars(BuildUpdateInfo)
    /\ WF_vars(Notify)

NextSecrets == MainParseArgs \/ MainSetupLogging \/ MainRunWorkflow \/ MainPerformSSH

SpecSecrets == InitSecrets /\ [][NextSecrets]_vars

NextInspect == Tick \/ CheckCertificate

SpecInspect == Init /\ [][NextInspect]_vars

NextCache == Tick \/ GetCachedCertificate \/ EnvWriteCertFile \/ EnvWriteKeyFile

SpecCache == Init /\ [][NextCache]_vars

NextWorkflow ==
    \/ Tick
    \/ RunAWSValidator
    \/ RunCertChecker
    \/ RunCertGenerator
    \/ RunCertUploader
    \/ RunCertValidator

SpecWorkflow == InitWorkflow /\ [][NextWorkflow]_vars

NextObtain == Tick \/ GenerateCertificate

SpecObtain == Init /\ [][NextObtain]_vars

NextRoundTrip == Tick \/ GenerateThenGet

SpecRoundTrip == Init /\ [][NextRoundTrip]_vars

NextInstall ==
    \/ SSHDial
    \/ BackupStep
    \/ CopyCertificate
    \/ CopyKey
    \/ SetPermission
    \/ RestartService

SpecInstall == Init /\ [][NextInstall]_vars

NextRemote == NextInstall \/ InstallAgain

SpecRemote == Init /\ [][NextRemote]_vars

NextUpload ==
    \/ UploadReadFiles
    \/ UploadConnect
    \/ EnsureRunning
    \/ PerformInstallation
    \/ NextInstall
    \/ StopService
    \/ ValidateAfterUpload

SpecUpload == InitUpload /\ [][NextUpload]_vars

NextEndToEnd ==
    \/ RunAWSValidator
    \/ CheckHostCertificate
    \/ RunCertGenerator
    \/ CallCertUploader
    \/ UploadReadFiles
    \/ UploadConnect
    \/ EnsureRunning
    \/ PerformInstallation
    \/ NextInstall
    \/ StopService
    \/ CertUploaderReturns
    \/ RunCertValidator

SpecEndToEnd == InitEndToEnd /\ [][NextEndToEnd]_vars

NextValidate == Tick \/ ValidatorStart \/ ValidatorPoll \/ ValidatorTimeout

SpecValidate == Init /\ [][NextValidate]_vars

\* the calling thread runs the loop: a poll that can be made is made, and the return
\* after the deadline is taken
SpecValidateFair ==
    SpecValidate /\ WF_vars(ValidatorPoll) /\ WF_vars(ValidatorTimeout)

NextConfig == ParseConfigFile \/ ParseEnvironment \/ ParseFlags

SpecConfig == Init /\ [][NextConfig]_vars

NextKey == GeneratePrivateKey

SpecKey == Init /\ [][NextKey]_vars

NextConcurrent ==
    \/ Tick
    \/ RunBegin
    \/ RunStatCert
    \/ RunStatKey
    \/ RunReadCert
    \/ RunAcme
    \/ RunWriteCert
    \/ RunWriteKey

SpecConcurrent == Init /\ [][NextConcurrent]_vars

(***************************************************************************)
(* Properties of the inspector                                             *)
(***************************************************************************)

\* C1: for a certificate with NotAfter > NotBefore and a threshold strictly between
\* 0 and 1, checkCertificateWithDialer reports needsRenewal exactly when
\* (NotAfter - now) / (NotAfter - NotBefore) <= threshold; equality needs renewal.
C1_NeedsRenewalIffAtOrBelowThreshold ==
    (/\ insp.called
     /\ insp.res.err = "nil"
     /\ insp.res.cert.NotAfter > insp.res.cert.NotBefore
     /\ 0 < insp.threshold.n
     /\ insp.threshold.n < insp.threshold.d)
    => (insp.res.needsRenewal <=>
          (insp.res.cert.NotAfter - insp.at) * insp.threshold.d
            <= insp.threshold.n * (insp.res.cert.NotAfter - insp.res.cert.NotBefore))

\* C1 witness: an inspection of a valid certificate exactly at the threshold, which
\* is reported as needing renewal
C1_Witness ==
    /\ insp.called
    /\ insp.res.err = "nil"
    /\ insp.res.cert.NotAfter > insp.res.cert.NotBefore
    /\ 0 < insp.threshold.n
    /\ insp.threshold.n < insp.threshold.d
    /\ (insp.res.cert.NotAfter - insp.at) * insp.threshold.d
         = insp.threshold.n * (insp.res.cert.NotAfter - insp.res.cert.NotBefore)
    /\ insp.res.needsRenewal

InUnitRange(p) == FLe(Fin(0, 1), p) /\ FLe(p, Fin(1, 1))

\* C2: whenever the computed percentRemaining of the inspected certificate is outside
\* [0,1] (expired, not yet valid, zero or negative lifetime), the inspection does not
\* fail and reports needsRenewal = true (stated for the thresholds strictly between
\* 0 and 1).
C2_OutOfRangeNeedsRenewal ==
    (/\ insp.called
     /\ insp.res.cert # NoCert
     /\ 0 < insp.threshold.n
     /\ insp.threshold.n < insp.threshold.d
     /\ ~InUnitRange(PercentRemaining(insp.res.cert, insp.at)))
    => (insp.res.err = "nil" /\ insp.res.needsRenewal)

(***************************************************************************)
(* Properties of the cache                                                 *)
(***************************************************************************)

\* percentRemaining <= 0.5 for certificate c at clock reading t, in integers
AtMostHalfRemaining(c, t) ==
    LET remaining == c.NotAfter - t
        total == c.NotAfter - c.NotBefore
    IN IF total > 0 THEN 2 * remaining <= total
       ELSE IF total < 0 THEN 2 * remaining >= total
       ELSE remaining < 0

\* C3: getCachedCertificate never returns found = true when Force is set, or the
\* cached certificate is not signed with SHA256-with-RSA, or its percentRemaining
\* is <= 0.5; in each of these cases both returned paths are empty.
C3_NoHitWhenForcedOrNotRSAOrStale ==
    lastGet.called =>
        LET cf == certFile[lastGet.host] IN
        (\/ lastGet.force
         \/ (cf.kind = "cert" /\ cf.cert.SignatureAlgorithm # SHA256WithRSA)
         \/ (cf.kind = "cert" /\ AtMostHalfRemaining(cf.cert, lastGet.at)))
        => (/\ ~lastGet.res.found
            /\ lastGet.res.certPath = NoPath
            /\ lastGet.res.keyPath = NoPath)

\* C3 witness: a call without Force on an RSA-signed cached certificate with exactly
\* half of its lifetime left, next to a key file, which is a miss
C3_Witness ==
    /\ lastGet.called
    /\ ~lastGet.force
    /\ certFile[lastGet.host].kind = "cert"
    /\ certFile[lastGet.host].cert.SignatureAlgorithm = SHA256WithRSA
    /\ certFile[lastGet.host].cert.NotAfter > certFile[lastGet.host].cert.NotBefore
    /\ 2 * (certFile[lastGet.host].cert.NotAfter - lastGet.at)
         = certFile[lastGet.host].cert.NotAfter - certFile[lastGet.host].cert.NotBefore
    /\ keyFile[lastGet.host] = PemFile
    /\ ~lastGet.res.found

\* a cache file that is missing or cannot be decoded
Undecodable(f) == f.st # "ok" \/ f.kind = "junk"

\* C4: getCachedCertificate returns found = false whenever the certificate file or
\* the private-key file of the hostname is missing or undecodable; a corrupted key
\* file next to a fresh valid certificate file is a miss.
C4_MissWhenEitherFileBad ==
    lastGet.called =>
        ((Undecodable(certFile[lastGet.host]) \/ Undecodable(keyFile[lastGet.host]))
            => ~lastGet.res.found)

\* C5: for every threshold that configuration validation accepts, a certificate that
\* getCachedCertificate accepts has percentRemaining > threshold: inspected at the
\* same moment, it does not need renewal (stated for a cache entry with a decodable
\* key file).
C5_CacheBarStricterThanThreshold ==
    (lastGet.called /\ lastGet.res.found /\ keyFile[lastGet.host] = PemFile) =>
        \A th \in Thresholds :
            ThresholdValid(th) =>
                ~checkCertificateWithDialer(
                     [err |-> FALSE, certs |-> <<certFile[lastGet.host].cert>>],
                     th, lastGet.at).needsRenewal

\* percentRemaining > 0.5 for certificate c at clock reading t, in integers (with a
\* zero lifetime the quotient is +Inf, NaN or -Inf)
MoreThanHalfRemaining(c, t) ==
    LET remaining == c.NotAfter - t
        total == c.NotAfter - c.NotBefore
    IN IF total > 0 THEN 2 * remaining > total
       ELSE IF total < 0 THEN 2 * remaining < total
       ELSE remaining > 0

\* the clock has not carried certificate file f across the cache's freshness bar
\* between the clock readings t1 and t2
SameSideOfBar(f, t1, t2) ==
    f.kind = "cert" => (MoreThanHalfRemaining(f.cert, t1) <=> MoreThanHalfRemaining(f.cert, t2))

\* C6 as stated: two calls of getCachedCertificate for the same hostname with the same
\* Force flag and no change of the cache directory in between return the same
\* (certPath, keyPath, found), and a call changes neither cached file.
C6_IdempotentWhateverTheClock ==
    [][(lastGet'.called => lastGet'.untouched)
       /\ ((lastGet.called /\ lastGet'.called /\ lastGet'.host = lastGet.host
              /\ lastGet'.force = lastGet.force)
           => lastGet'.res = lastGet.res)]_vars

\* C6, amended: two calls of getCachedCertificate for the same hostname with the same
\* Force flag, no change of the cache directory in between and the cached certificate
\* on the same side of the 50% freshness bar at both clock readings return the same
\* (certPath, keyPath, found), and a call changes neither cached file.
C6_Idempotent ==
    [][(lastGet'.called => lastGet'.untouched)
       /\ ((lastGet.called /\ lastGet'.called /\ lastGet'.host = lastGet.host
              /\ lastGet'.force = lastGet.force
              /\ SameSideOfBar(certFile[lastGet.host], lastGet.at, lastGet'.at))
           => lastGet'.res = lastGet.res)]_vars

\* C6 witness: a second call for the same hostname and Force flag on an unchanged
\* cache directory, at a later clock reading, which is a hit like the first
C6_Witness ==
    /\ lastGet.called
    /\ lastGet.again
    /\ lastGet.at > 0
    /\ lastGet.res.found
    /\ lastGet.untouched

(***************************************************************************)
(* Properties of runWorkflow                                               *)
(***************************************************************************)
Invoked(dep) == \E i \in 1..Len(calls) : calls[i] = dep

\* C7: in dry-run mode the run calls, after AWS validation, the certificate checker
\* exactly once and never the generator, the uploader or the validator, whatever the
\* checker reports, and returns success when the check succeeds.
C7_DryRunOnlyInspects ==
    config.DryRun =>
        /\ ~Invoked("CertGenerator")
        /\ ~Invoked("CertUploader")
        /\ ~Invoked("CertValidator")
        /\ (pc = "done" /\ out.aws = "ok") =>
              (/\ calls = <<"AWSValidator", "CertChecker">>
               /\ (chk.err = "nil" => ret = "nil"))

\* C7 witness: a finished dry run whose check reported that renewal is needed
C7_Witness ==
    /\ config.DryRun
    /\ pc = "done"
    /\ chk.err = "nil"
    /\ chk.needsRenewal
    /\ ret = "nil"
    /\ calls = <<"AWSValidator", "CertChecker">>

\* C8: in a run that is not a dry run, with Force set and a successful inspection,
\* the decision is to renew whatever the inspector reported: the generator is
\* invoked, then the uploader and the validator, each once the stage before it
\* has succeeded.
C8_ForceRenewsUnconditionally ==
    (~config.DryRun /\ config.Force /\ chk.err = "nil") =>
        /\ pc # "check"
        /\ pc = "done" =>
              (/\ Invoked("CertGenerator")
               /\ (out.gen = "ok" => Invoked("CertUploader"))
               /\ (out.up = "ok" => Invoked("CertValidator")))

\* C8 witness: a forced run on a certificate the inspector reported as not needing
\* renewal, in which generator, uploader and validator were all invoked
C8_Witness ==
    /\ ~config.DryRun
    /\ config.Force
    /\ chk.err = "nil"
    /\ ~chk.needsRenewal
    /\ pc = "done"
    /\ calls = <<"AWSValidator", "CertChecker", "CertGenerator", "CertUploader", "CertValidator">>

\* C9: in a run that is neither a dry run nor forced, when the inspector reports that
\* no renewal is needed the run returns success and invokes none of generator,
\* uploader and validator; when it reports that renewal is needed the generator is
\* invoked.
C9_UpToDateStopsElseGenerates ==
    (~config.DryRun /\ ~config.Force /\ chk.err = "nil") =>
        IF ~chk.needsRenewal
        THEN /\ pc = "done"
             /\ ret = "nil"
             /\ calls = <<"AWSValidator", "CertChecker">>
        ELSE /\ pc # "check"
             /\ pc # "generate" => Invoked("CertGenerator")

\* C9 witness: a finished, successful run on an up-to-date certificate
C9_Witness ==
    /\ ~config.DryRun
    /\ ~config.Force
    /\ chk.err = "nil"
    /\ ~chk.needsRenewal
    /\ pc = "done"
    /\ ret = "nil"

\* C10: AWS credential validation is the first pipeline step in every mode: no
\* check, generation, upload or validation is invoked before it, and when it fails
\* the run returns an error without invoking any of those four.
C10_AWSValidationFirst ==
    /\ Len(calls) > 0 => calls[1] = "AWSValidator"
    /\ out.aws = "err" =>
          (/\ pc = "done"
           /\ ret \notin {"nil", "running"}
           /\ calls = <<"AWSValidator">>)

\* C10 witness: a dry run ended by a failed AWS validation
C10_Witness ==
    /\ config.DryRun
    /\ out.aws = "err"
    /\ pc = "done"
    /\ ret = "AWS credential validation failed"

\* C11: the run aborts at the first failing stage: when the checker, the generator or
\* the uploader returns an error, runWorkflow returns a non-nil error and invokes no
\* later stage (generator, uploader, validator), in dry-run, normal and Force mode.
C11_AbortsAtFirstError ==
    /\ chk.err \notin {"nil", "none"} =>
          (/\ pc = "done"
           /\ ret \notin {"nil", "running"}
           /\ ~Invoked("CertGenerator")
           /\ ~Invoked("CertUploader")
           /\ ~Invoked("CertValidator"))
    /\ out.gen = "err" =>
          (/\ pc = "done"
           /\ ret \notin {"nil", "running"}
           /\ ~Invoked("CertUploader")
           /\ ~Invoked("CertValidator"))
    /\ out.up = "err" =>
          (/\ pc = "done"
           /\ ret \notin {"nil", "running"}
           /\ ~Invoked("CertValidator"))

\* C11 witness: a forced run whose generation failed, ended with that error before
\* any upload
C11_Witness ==
    /\ config.Force
    /\ out.gen = "err"
    /\ pc = "done"
    /\ ret = "failed to generate certificate"
    /\ calls = <<"AWSValidator", "CertChecker", "CertGenerator">>

\* C12: once the upload has succeeded, runWorkflow returns success whatever the
\* validator returns: validated, not validated within the timeout, or an error.
C12_ValidationAdvisory ==
    (out.up = "ok" /\ pc = "done") =>
        (/\ ret = "nil"
         /\ Invoked("CertValidator"))

\* C12 witness: a finished run whose validator returned an error after a successful
\* upload, and which returned success
C12_Witness ==
    /\ out.up = "ok"
    /\ out.val = "err"
    /\ ~out.validated
    /\ pc = "done"
    /\ ret = "nil"

(***************************************************************************)
(* Properties of generateCertificate                                       *)
(***************************************************************************)

\* C13: generateCertificate consults the cache first: on a cache hit it returns
\* exactly the cached certificate and key paths with no error, without contacting
\* the issuance collaborator and without rewriting the cache files; the issuance
\* collaborator is contacted only on a miss.
C13_CacheHitSkipsIssuance ==
    gen.called =>
        /\ gen.cached.found =>
              (/\ gen.res = [certPath |-> CertPath(gen.host), keyPath |-> KeyPath(gen.host),
                             err |-> "nil"]
               /\ gen.res.certPath = gen.cached.certPath
               /\ gen.res.keyPath = gen.cached.keyPath
               /\ ~gen.contacted
               /\ gen.untouched)
        /\ gen.contacted => ~gen.cached.found

\* C13 witness: a call that found a fresh cached entry and returned its paths
C13_Witness ==
    /\ gen.called
    /\ gen.cached.found
    /\ gen.had
    /\ gen.res.err = "nil"
    /\ gen.res.certPath = CertPath(gen.host)
    /\ ~gen.contacted

\* the cache files of the hostname of the last call hold the pair issued in that call
HoldsIssuedPair ==
    /\ certFile[gen.host] = CertPem(gen.issued)
    /\ keyFile[gen.host] = KeyPem(gen.issued)

\* C14 as stated: on a cache miss followed by successful issuance, generateCertificate
\* writes the issued certificate and key to the hostname's two cache files and returns
\* those two paths.
C14_IssuedPairStoredAndReturned ==
    (gen.called /\ ~gen.cached.found /\ gen.issued # NoCert) =>
        /\ HoldsIssuedPair
        /\ gen.res = [certPath |-> CertPath(gen.host), keyPath |-> KeyPath(gen.host),
                      err |-> "nil"]

\* C14, amended: on a cache miss followed by successful issuance, when both file
\* writes succeed the two cache files of the hostname hold the issued pair and their
\* paths are returned with no error; when a write fails an error and empty paths are
\* returned; paths returned after a miss always name files holding the issued pair.
C14_IssuedPairStoredUnlessWriteFails ==
    (gen.called /\ ~gen.cached.found) =>
        /\ (gen.issued # NoCert /\ gen.written) =>
              (/\ HoldsIssuedPair
               /\ gen.res = [certPath |-> CertPath(gen.host), keyPath |-> KeyPath(gen.host),
                             err |-> "nil"])
        /\ (gen.issued # NoCert /\ ~gen.written) =>
              (/\ gen.res.err \in {"failed to write cert file", "failed to write key file"}
               /\ gen.res.certPath = NoPath
               /\ gen.res.keyPath = NoPath)
        /\ gen.res.err = "nil" =>
              (/\ gen.issued # NoCert
               /\ HoldsIssuedPair
               /\ gen.res.certPath = CertPath(gen.host)
               /\ gen.res.keyPath = KeyPath(gen.host))

\* C14 witness: a miss on a hostname that had an entry, followed by an issuance whose
\* pair replaced the entry and whose paths were returned
C14_Witness ==
    /\ gen.called
    /\ ~gen.cached.found
    /\ gen.had
    /\ gen.issued # NoCert
    /\ gen.written
    /\ ~gen.untouched
    /\ HoldsIssuedPair
    /\ gen.res.err = "nil"

(***************************************************************************)
(* Properties of performSSHCertificateInstallation                         *)
(***************************************************************************)
Attempted(cmd) == \E k \in 1..Len(inst.steps) : inst.steps[k].cmd = cmd
Failed(cmd) == \E k \in 1..Len(inst.steps) : inst.steps[k].cmd = cmd /\ inst.steps[k].res # "ok"
Succeeded(cmd) == \E k \in 1..Len(inst.steps) : inst.steps[k].cmd = cmd /\ inst.steps[k].res = "ok"
Ran(cmd) == \E k \in 1..Len(inst.steps) : inst.steps[k].cmd = cmd /\ inst.steps[k].res # "sess"
CommandFailed(cmd) == \E k \in 1..Len(inst.steps) : inst.steps[k].cmd = cmd /\ inst.steps[k].res = "run"
Position(cmd) == CHOOSE k \in 1..Len(InstallOrder) : InstallOrder[k] = cmd
Installed == inst.pc = "done" /\ inst.ret # "failed to connect via SSH"

\* C15: once connected, the install returns an error only if the upload of the
\* certificate or of the key, or the restart of hostd, failed: no failure of the
\* backup, of the permission step (a session that cannot be opened included) or of the
\* vpxa restart (a session that cannot be opened included) makes it fail.
C15_FailsOnlyOnUploadOrPrimaryRestart ==
    (Installed /\ inst.ret # "nil") =>
        (Failed(UploadCertificate) \/ Failed(UploadKey) \/ Failed(HostdRestart))

\* C16: when both uploads and the hostd restart succeed, the install returns success
\* even if every permission command (chmod 644, chmod 600, chown) fails, and the
\* restart step has run.
C16_PermissionFailuresNotFatal ==
    (/\ Installed
     /\ Succeeded(UploadCertificate)
     /\ Succeeded(UploadKey)
     /\ Succeeded(HostdRestart)
     /\ \A k \in 1..Len(PermissionCommands) : CommandFailed(PermissionCommands[k]))
    => (inst.ret = "nil" /\ Ran(HostdRestart))

\* C17: the remote steps are issued one after the other in the order backup of
\* certificate and key, upload of the certificate, upload of the key, permission and
\* ownership commands, hostd restart, vpxa restart: the backup comes first, no step
\* is issued before or twice after a later one, and an install that returns success
\* has run every upload, permission and restart command.
C17_StepsInOrder ==
    /\ Len(inst.steps) > 0 => inst.steps[1].cmd = BackupCommands[1]
    /\ \A j \in 1..Len(inst.steps), k \in 1..Len(inst.steps) :
          j < k => Position(inst.steps[j].cmd) < Position(inst.steps[k].cmd)
    /\ inst.ret = "nil" =>
          \A p \in (Len(BackupCommands) + 1)..Len(InstallOrder) : Ran(InstallOrder[p])

\* C17 witness: a successful install that issued every command of the order
C17_Witness ==
    /\ inst.pc = "done"
    /\ inst.ret = "nil"
    /\ Len(inst.steps) = Len(InstallOrder)
    /\ \A p \in 1..Len(InstallOrder) : inst.steps[p].cmd = InstallOrder[p]

\* C18: a failed upload ends the install: after a failed certificate upload the key
\* is not uploaded, and after a failed upload of either file no permission command
\* and no restart is issued and the install returns an error.
C18_UploadFailureFatal ==
    /\ Failed(UploadCertificate) => ~Attempted(UploadKey)
    /\ (Failed(UploadCertificate) \/ Failed(UploadKey)) =>
          (/\ inst.pc = "done"
           /\ inst.ret \notin {"nil", "running"}
           /\ \A k \in 1..Len(PermissionCommands) : ~Attempted(PermissionCommands[k])
           /\ \A k \in 1..Len(RestartCommands) : ~Attempted(RestartCommands[k]))

\* C18 witness: an install ended by a failed certificate upload
C18_Witness ==
    /\ Failed(UploadCertificate)
    /\ inst.pc = "done"
    /\ inst.ret = "failed to copy certificate files"
    /\ ~Attempted(UploadKey)

\* C19: the install returns an error whenever the hostd restart failed, whatever the
\* outcome of the vpxa restart.
C19_PrimaryRestartFailureFatal ==
    (inst.pc = "done" /\ Failed(HostdRestart)) => inst.ret \notin {"nil", "running"}

\* C19 witness: an install whose hostd restart command failed and whose vpxa restart
\* succeeded, which returned an error
C19_Witness ==
    /\ inst.pc = "done"
    /\ CommandFailed(HostdRestart)
    /\ Succeeded(VpxaRestart)
    /\ inst.ret = "failed to restart ESXi services"

\* C20: when the hostd restart succeeded, no failure of the vpxa restart, whether its
\* command fails or its session cannot be opened, makes the install return an error.
C20_SecondaryRestartFailureNotFatal ==
    (inst.pc = "done" /\ Succeeded(HostdRestart) /\ Failed(VpxaRestart)) => inst.ret = "nil"

(***************************************************************************)
(* Properties of the TSM-SSH service around the installation               *)
(***************************************************************************)
Count(seq, x) == Cardinality({k \in 1..Len(seq) : seq[k] = x})
IndexOf(seq, x) == CHOOSE k \in 1..Len(seq) : seq[k] = x
Called(x) == Count(up.calls, x) > 0

\* C21: whenever ensureSSHServiceRunning succeeded, installCertificateViaSSH returns
\* with TSM-SSH stopped exactly once, after the call of
\* performSSHCertificateInstallation and before runWorkflow calls the validator,
\* whether or not the service was running beforehand and whether the installation
\* succeeded or failed; the service is never stopped twice.
C21_StoppedOnceAfterInstall ==
    /\ Count(up.calls, "Stop") <= 1
    /\ (up.ensured /\ up.pc \in {"returned", "validating"}) =>
            /\ Count(up.calls, "Stop") = 1
            /\ Called("Install")
            /\ IndexOf(up.calls, "Install") < IndexOf(up.calls, "Stop")
    /\ Called("CertValidator") =>
            /\ up.ensured
            /\ Called("Stop")
            /\ IndexOf(up.calls, "Stop") < IndexOf(up.calls, "CertValidator")

\* C21 witness: the service was running beforehand, the installation failed, and the
\* service has been stopped once when installCertificateViaSSH returns
C21_Witness ==
    /\ up.pc = "returned"
    /\ up.ensured
    /\ up.wasRunning
    /\ up.sshErr \notin {"nil", "running"}
    /\ Count(up.calls, "Stop") = 1

C23_FailedPollsNotTerminal ==
    /\ val.continued
    /\ val.ret.err = "nil"
    /\ (val.pc = "done" /\ val.reads = 0) =>
            /\ val.ret = [rotated |-> FALSE, err |-> "nil"]
            /\ ~(now < val.deadline)

\* C23 witness: several polls, none of which read a certificate, the last one a failed
\* dial, and the validator has returned
C23_Witness ==
    /\ val.pc = "done"
    /\ val.polls >= 2
    /\ val.reads = 0
    /\ val.last = "fail"

\* C24: validateCertificateWithDialer returns true exactly when a poll begun before the
\* deadline read a leaf whose NotAfter is more than one hour away from the previous
\* certificate's, in either direction; a leaf at most one hour away leaves the loop
\* running, so that a call that read only such leaves returns at the deadline.
C24_RotatedIffOverOneHour ==
    /\ val.pc = "done" => (val.ret.rotated <=> val.overHour)
    /\ val.pc = "loop" => ~val.overHour
    /\ val.ret.rotated =>
            (val.last = "leaf" /\ val.lastDiff > OneHour /\ val.lastAt < val.deadline)
    /\ (val.pc = "done" /\ ~val.ret.rotated) => ~(now < val.deadline)

\* C24 witness: a poll read a leaf exactly one hour away and the loop goes on
C24_Witness ==
    /\ val.pc = "loop"
    /\ val.last = "leaf"
    /\ val.lastDiff = OneHour

(***************************************************************************)
(* Properties of one inspection                                            *)
(***************************************************************************)

\* C25: checkCertificateWithDialer calls Dial exactly once; when that dial fails it
\* returns (false, nil, connection error), when the chain is empty it returns
\* (false, nil, no-certificates error).
C25_DialsOnce ==
    insp.called =>
        /\ insp.dials = 1
        /\ insp.first = "fail" =>
                insp.res = [needsRenewal |-> FALSE, cert |-> NoCert, err |-> "connect"]
        /\ insp.first = "empty" =>
                insp.res = [needsRenewal |-> FALSE, cert |-> NoCert, err |-> "nocerts"]

\* C25 witness: an inspection whose dial failed
C25_Witness ==
    /\ insp.called
    /\ insp.first = "fail"
    /\ insp.res.err = "connect"

(***************************************************************************)
(* Properties of the key size                                              *)
(***************************************************************************)

\* C26: generatePrivateKey asks for a key of the configured size when that is 2048 or
\* 4096 and for a 4096-bit key otherwise; the caller's config keeps its key size.
C26_KeySizePolicy ==
    cm.key.called =>
        /\ cm.key.asked \in {2048, 4096} => cm.key.bits = cm.key.asked
        /\ cm.key.asked \notin {2048, 4096} => cm.key.bits = 4096
        /\ cm.key.after = cm.key.asked

\* C26 witness: a configured size of 1024 gave a 4096-bit key
C26_Witness ==
    /\ cm.key.called
    /\ cm.key.asked = 1024
    /\ cm.key.bits = 4096

(***************************************************************************)
(* Properties of concurrent invocations                                    *)
(***************************************************************************)

\* C27: two invocations with different hostnames touch disjoint sets of cache files,
\* every file access of an invocation sees what it would see had the invocation run
\* alone, and the files of its hostname are at every moment what it alone made them.
C27_DifferentHostsDisjointFiles ==
    /\ \A r \in RunIds, q \in RunIds :
            r # q => runs.run[r].touched \cap runs.run[q].touched = {}
    /\ \A r \in RunIds :
            /\ runs.run[r].same
            /\ runs.run[r].pc # "idle" =>
                    /\ runs.fs[CertPath(RunHost(r))] = runs.run[r].solo.cf
                    /\ runs.fs[KeyPath(RunHost(r))] = runs.run[r].solo.kf

\* C27 witness: one invocation is between its two writes while the other, which found
\* both files of its own hostname, is about to read its certificate
C27_Witness ==
    /\ runs.run[1].pc = "writekey"
    /\ runs.run[2].pc = "readcert"
    /\ runs.run[1].touched # {}
    /\ runs.run[2].touched # {}

(***************************************************************************)
(* Properties of the configuration                                         *)
(***************************************************************************)

\* C28: when parseArgs has built the Config, every option has the value supplied by the
\* highest source that supplied it (flag, then environment, then config file, then
\* default), a flag supplying false or zero included.
C28_HighestSourceWins ==
    (cm.stage = "done" /\ cm.err # "failed to load config file") =>
        /\ cm.values = cm.top
        /\ cm.config = BuildConfig(cm.top)

\* C29: ValidateConfig returns an error for every Config with DryRun and Force set.
C29_DryRunWithForceRejected ==
    (cm.stage = "done" /\ cm.config.DryRun /\ cm.config.Force) => cm.err # "nil"

\* C29 witness: a Config with a hostname, both AWS credentials, DryRun and Force was
\* rejected for the combination
C29_Witness ==
    /\ cm.stage = "done"
    /\ cm.config.DryRun
    /\ cm.config.Force
    /\ cm.err = "cannot use dry-run and force together"

\* C30: ValidateConfig rejects a Config for its AWS credentials exactly when one of key
\* ID and secret key is supplied without the other; both supplied and both omitted pass
\* the rule.
C30_AwsBothOrNeither ==
    (cm.stage = "done" /\ cm.err # "failed to load config file" /\ cm.config.Hostname # "") =>
        ((cm.err = "AWS credentials for Route53 are required")
            <=> ((cm.config.Route53KeyID = "") # (cm.config.Route53SecretKey = "")))

(***************************************************************************)
(* Termination of the validator                                            *)
(***************************************************************************)

\* C31: validateCertificateWithDialer always returns, whatever the dials answer and
\* whatever maxDuration is, every poll that does not return moving the clock on; what
\* it returns is (true, nil) or (false, nil); with maxDuration <= 0 it returns
\* (false, nil) without a dial.
C31_ValidatorTerminates ==
    /\ (val.pc = "loop") ~> (val.pc = "done")
    /\ [](val.ret.err = "nil")
    /\ []((val.pc # "idle" /\ val.deadline <= val.start) =>
            (val.polls = 0 /\ ~val.ret.rotated))

\* C31 witness: a validator that polled twice or more has returned
C31_Witness ==
    /\ val.pc = "done"
    /\ val.polls >= 2
    /\ val.deadline > val.start

(***************************************************************************)
(* Remote sessions of the installation                                     *)
(***************************************************************************)
\* the number of sessions open after the first k session calls
OpenAfter(k) ==
    Cardinality({j \in 1..k : inst.sessions[j] = "NewSession"})
        - Cardinality({j \in 1..k : inst.sessions[j] = "Close"})

\* C32: every remote step that gets a session has its own, closed before the next
\* step: at no point of performSSHCertificateInstallation is more than one session
\* open, and none is open when it returns, with or without an error.
C32_OneSessionAtATime ==
    /\ \A k \in 0..Len(inst.sessions) : OpenAfter(k) \in {0, 1}
    /\ OpenAfter(Len(inst.sessions)) = 0
    /\ Count(inst.sessions, "NewSession")
            = Cardinality({k \in 1..Len(inst.steps) : inst.steps[k].res # "sess"})

\* C32 witness: an installation that returned an error after several remote steps
C32_Witness ==
    /\ inst.pc = "done"
    /\ inst.ret \notin {"nil", "running"}
    /\ Count(inst.sessions, "NewSession") >= 4

(***************************************************************************)
(* The cached pair                                                         *)
(***************************************************************************)
\* what getCachedCertificate would return for hostname h now, without Force
CacheGet(h) == getCachedCertificate([Hostname |-> h, Force |-> FALSE], certFile[h], keyFile[h], now)

\* C33: after any sequence of generateCertificate calls, whenever getCachedCertificate
\* would return found = true for a hostname, the key file of the hostname holds the
\* private key issued with the certificate that its certificate file holds.
C33_CachedPairConsistent ==
    \A h \in Hosts : CacheGet(h).found => keyFile[h] = KeyPem(certFile[h].cert)

(***************************************************************************)
(* Issuance followed by a cache lookup                                     *)
(***************************************************************************)
\* the last generateCertificate call issued a certificate and wrote both files
Persisted == gen.called /\ gen.written /\ gen.res.err = "nil"

\* C34 as stated: right after an issuance that was written to the cache,
\* getCachedCertificate without Force returns found = true with the paths that
\* generateCertificate returned, whatever certificate was issued.
C34_PutThenGet ==
    Persisted => /\ gen.after.found
                 /\ gen.after.certPath = gen.res.certPath
                 /\ gen.after.keyPath = gen.res.keyPath

\* C34 amended: right after an issuance that was written to the cache,
\* getCachedCertificate without Force returns found = true, with the paths that
\* generateCertificate returned, exactly when the certificate is signed with
\* SHA256WithRSA and more than half of its lifetime remains; otherwise found = false.
C34_PutThenGetFresh ==
    Persisted =>
        LET c == gen.issued
            fresh == 2 * (c.NotAfter - gen.at) > c.NotAfter - c.NotBefore
        IN /\ gen.after.found <=> (c.SignatureAlgorithm = SHA256WithRSA /\ fresh)
           /\ gen.after.found => /\ gen.after.certPath = gen.res.certPath
                                 /\ gen.after.keyPath = gen.res.keyPath
                                 /\ gen.res.certPath = CertPath(gen.host)
                                 /\ gen.res.keyPath = KeyPath(gen.host)

C34_Witness ==
    /\ Persisted
    /\ gen.after.found
    /\ gen.issued.NotBefore < gen.at

(***************************************************************************)
(* The remote files across installs                                        *)
(***************************************************************************)
\* a certificate file and a key file that belong together: both absent, or both
\* written whole from the same issuance
Matching(c, k) == c = k /\ c.st # "truncated"

\* the current install has issued "/etc/init.d/hostd restart"
RestartIssued ==
    \E k \in 1..Len(inst.steps) : inst.steps[k].cmd = HostdRestart /\ inst.steps[k].res # "sess"

\* C35 as stated: after any sequence of installs, rui.crt.backup and rui.key.backup
\* belong together, and so do rui.crt and rui.key when the hostd restart was issued.
C35_RemotePairsMatch ==
    inst.pc = "done" =>
        /\ Matching(inst.remote.crtBackup, inst.remote.keyBackup)
        /\ RestartIssued => Matching(inst.remote.crt, inst.remote.key)

\* C35 amended: whenever an install has issued the hostd restart, rui.crt and rui.key
\* hold the certificate and the key that this install was given.
C35_RestartedPairInstalled ==
    RestartIssued => /\ inst.remote.crt = PairFile(inst.pair)
                     /\ inst.remote.key = PairFile(inst.pair)

C35_Witness ==
    /\ inst.pc = "done"
    /\ inst.pair = 2
    /\ RestartIssued
    /\ inst.remote.crtBackup = PairFile(1)
    /\ inst.remote.keyBackup = PairFile(0)

(***************************************************************************)
(* A successful run, end to end                                            *)
(***************************************************************************)
\* the install ran command cmd and the command succeeded
Completed(cmd) == \E k \in 1..Len(inst.steps) : inst.steps[k] = [cmd |-> cmd, res |-> "ok"]

\* runWorkflow went on to the renewal: not a dry run, and the check asked for a
\* renewal or Force was set
RenewalDecided ==
    /\ ~config.DryRun
    /\ chk.err = "nil"
    /\ chk.needsRenewal \/ config.Force

SameLength(p, q) == Len(p) = Len(q) \/ (Len(p) <= 2 /\ Len(q) <= 2)

SameLog == logs.run[1].lines = logs.run[2].lines

C38_UpdateCheckNeverBlocks ==
    /\ (upd.caller = "select") ~> (upd.caller \in {"returned", "left"})
    /\ (upd.worker = "send") ~> (upd.worker = "finished")
    /\ <>(pc = "aws")
    /\ [](upd.timedOut => upd.firedAt >= UpdateTimeout /\ ~upd.received)
    /\ [](upd.received => upd.sent)
    /\ [](upd.read # "none" => upd.readReceived /\ upd.read \in {"uptodate", "outdated"})
    /\ [](upd.caller = "left" /\ upd.ret # "nil" => upd.msg = "")

C38_Witness ==
    /\ pc = "aws"
    /\ upd.timedOut
    /\ upd.worker = "finished"
    /\ upd.msg = ""

====
